---- MODULE Spec2Model ----
(***************************************************************************)
(* Workflow orchestration engine of the compliance orchestrator:           *)
(* WorkflowOrchestrator.run_workflow (staged plan), BaseAgent              *)
(* .run_with_timeout (agent runner), the HITL request/response correlation *)
(* (_request_human_input / handle_hitl_response), ConnectionManager        *)
(* (transport) and the in-memory branch of DatabaseManager (session store).*)
(*                                                                         *)
(* asyncio is cooperative: code between two awaits is one atomic step.     *)
(* Every await of a store or transport call is a point where that call may *)
(* raise; an action that spans several such calls takes the index of the   *)
(* call that raises (0 = none) as an input.                                *)
(***************************************************************************)
EXTENDS Integers, Sequences, FiniteSets, TLC

(* ------------------------------ bounds --------------------------------- *)

\* Faults the environment injects in one behaviour: an execute call raising
\* or exceeding its timeout, a retrieval raising, a store or transport call
\* of run_workflow raising.
MaxFaults == 1

\* Messages the remote operators send in one behaviour.
MaxResponses == 1

\* The same two bounds where the operators' messages are the subject
\* (SpecHitl) and where two runs are in flight (SpecTwo).
MaxFaultsHitl == 0
MaxResponsesHitl == 2
MaxFaultsTwo == 0
MaxFaultsWide == 2
MaxResponsesTwo == 1

\* The longest document list an agent returns to a synthesis outside the
\* runs; run_with_timeout calls made on one agent object outside the runs,
\* and the longest time one of them takes; an invocation inside a run takes
\* RunElapsed.
MaxDocs == 2
MaxInvocations == 3
MaxElapsed == 2
RunElapsed == 1

\* Concurrent run_workflow tasks, and the session identifiers they may use.
Runs == {"r1", "r2"}
SessionOrder == <<"s1", "s2">>
SessionIds == {SessionOrder[i] : i \in 1..Len(SessionOrder)}


\* The kinds of message an operator sends: (response_type, payload).
ResponseKinds == {<<"text", "p1">>, <<"approval", "p2">>}

\* Request identifiers no round ever issued (uuid4 values start at 1 here).
NeverIssued == {0}

\* What re.findall collects for a query: nothing, a str (a pattern with at
\* most one group matched) or a tuple of str (the bypass ... security
\* pattern, which has two groups, matched).
UnsafeMatches == {<<>>, <<"str">>, <<"tuple">>}

\* Queries, by what validate_query_safety measures of them: the unsafe-pattern
\* matches, the number of compliance keywords, the word count.
Queries ==
  {[unsafe_matches |-> u, compliance_score |-> k, words |-> w] :
     u \in UnsafeMatches, k \in {0, 1}, w \in {4, 5}}

(* --------------------------- program constants ------------------------- *)

\* follow_up_questions[:2]
HitlQuestionCap == 2

\* stop_after_attempt(3) of the retry decorator on BaseAgent.execute
StopAfterAttempt == 3

\* Scores are kept in hundredths: ComplianceResult admits 0.00 .. 1.00.
ScoreMax == 100

Scores == 0..ScoreMax

\* "confidence": 0.75 of RiskScorerAgent.execute, in hundredths
ScorerConfidence == 75

\* The default of risk_data.get("risk_score", 0.5) and of
\* risk_data.get("confidence", 0.5), in hundredths
DefaultScore == 50

\* The six entries of WorkflowOrchestrator.agents, with BaseAgent.name.
CollectionAgents == <<"policy_retriever", "evidence_collector", "vision_ocr", "code_scanner">>
CollectionSet == {CollectionAgents[i] : i \in 1..Len(CollectionAgents)}
AgentKeys == CollectionSet \cup {"risk_scorer", "red_team_critic"}

SelfName(a) ==
  CASE a = "policy_retriever" -> "PolicyRetriever"
    [] a = "evidence_collector" -> "EvidenceCollector"
    [] a = "vision_ocr" -> "VisionOCR"
    [] a = "code_scanner" -> "CodeScanner"
    [] a = "risk_scorer" -> "RiskScorer"
    [] a = "red_team_critic" -> "RedTeamCritic"

\* Agents whose run_agent_with_context branch awaits the RAG system first.
RetrievalAgents == {"policy_retriever", "evidence_collector", "vision_ocr"}

None == [none |-> TRUE]

\* dict.get(key, default)
Get(d, k, default) == IF k \in DOMAIN d THEN d[k] ELSE default

Questions == <<"q1", "q2", "q3", "q4">>

\* Lengths of the follow_up_questions list of a critic payload: none, one,
\* and more than run_workflow asks.
QuestionCounts == {0, 1, HitlQuestionCap + 1}

(* ------------------------- agent payloads ------------------------------ *)

\* What execute returns when it returns. The collection agents' payloads are
\* the mock data of the repository; the risk scorer and the critic are
\* black boxes whose payloads range over small sets that include the
\* repository's.
\* A result dict of the risk scorer.
RiskPayload(risk_score, confidence) ==
  [agent |-> "RiskScorer", status |-> "success",
   risk_score |-> risk_score, confidence |-> confidence]

\* A retrieved document as the agents return it: its identifiers, its text
\* under the key text ("snippet" for policies and evidence, "content" for
\* OCR documents) and the score the agent attaches to it.
Document(doc_id, chunk_id, text) ==
  IF text = "snippet"
    THEN [doc_id |-> doc_id, chunk_id |-> chunk_id, score |-> 90,
          snippet |-> <<"text of", doc_id, chunk_id>>]
    ELSE [doc_id |-> doc_id, chunk_id |-> chunk_id, score |-> 90,
          content |-> <<"text of", doc_id, chunk_id>>]

\* A result dict of the critic with n follow-up questions.
CriticPayload(n, needs_hitl) ==
  [agent |-> "RedTeamCritic", status |-> "success",
   gaps_identified |-> SubSeq(Questions, 1, n),
   follow_up_questions |-> SubSeq(Questions, 1, n),
   needs_hitl |-> needs_hitl]

SuccessPayloads(a) ==
  CASE a = "policy_retriever" ->
         {[agent |-> SelfName(a), status |-> "success",
           policies |-> <<Document("POLICY-001", "MFA-SEC-001", "snippet"),
                          Document("POLICY-002", "AUTH-REQ-003", "snippet")>>]}
    [] a = "evidence_collector" ->
         {[agent |-> SelfName(a), status |-> "success",
           evidence |-> <<Document("SPEC-001", "LOGIN-FLOW-001", "snippet"),
                          Document("API-DOC-001", "AUTH-ENDPOINT-001", "snippet")>>]}
    [] a = "vision_ocr" ->
         {[agent |-> SelfName(a), status |-> "success", ocr_results |-> <<>>]}
    [] a = "code_scanner" ->
         {[agent |-> SelfName(a), status |-> "success", findings |-> <<>>]}
    [] a = "risk_scorer" -> {RiskPayload(25, ScorerConfidence)}
    [] a = "red_team_critic" ->
         {CriticPayload(n, h) : n \in QuestionCounts, h \in BOOLEAN}

\* The critic payloads of the two-run scenario: human input is needed, with
\* one follow-up question.
OneQuestionPayloads ==
  {p \in SuccessPayloads("red_team_critic") :
     p.needs_hitl /\ Len(p.follow_up_questions) = 1}

\* The critic payload of the scenario with two questions to answer.
TwoQuestionPayloads == {CriticPayload(HitlQuestionCap, TRUE)}

\* The critic payload of the scenarios without human input.
NoHitlPayloads ==
  {p \in SuccessPayloads("red_team_critic") :
     ~p.needs_hitl /\ Len(p.follow_up_questions) = 0}

IsFault(o) == o.kind # "return"

\* str(e) of an exception of class e.
FaultMessage(e) == IF e = "TimeoutError" THEN "inner timeout" ELSE "boom"

(* --------------------------- post-run screen --------------------------- *)

\* A str of n characters.
Text(n) == [i \in 1..n |-> "x"]

\* Result dicts handed to validate_result_schema: scores around the
\* thresholds (one risk_score outside the schema's range), with and without
\* a citation, rationales around 50 characters.
Results ==
  {[decision |-> d, confidence |-> c, risk_score |-> x, rationale |-> Text(n),
    citations |-> cs, open_questions |-> <<>>, human_interactions |-> <<>>] :
     d \in {"compliant", "non_compliant", "insufficient_evidence"},
     c \in {0, 49, 50, ScoreMax},
     x \in {0, 29, 30, 70, 71, 75, ScoreMax, ScoreMax + 1},
     cs \in {<<>>, <<"POLICY-001">>},
     n \in {0, 49, 50}}

\* ComplianceResult(**result) raises ValidationError.
SchemaInvalid(res) ==
  \/ res.decision \notin {"compliant", "non_compliant", "insufficient_evidence"}
  \/ res.confidence \notin Scores
  \/ res.risk_score \notin Scores

\* Variant of validate_result_schema that stops at the first violation.
validate_result_schema_first_error(res) ==
  IF SchemaInvalid(res)
    THEN [is_valid |-> FALSE, errors |-> <<"Schema validation error">>,
          validated_result |-> None]
  ELSE
    LET first ==
          IF res.decision = "compliant" /\ res.risk_score > 70
            THEN <<"Inconsistent: decision is 'compliant' but risk_score is high">>
          ELSE IF res.decision = "non_compliant" /\ res.risk_score < 30
            THEN <<"Inconsistent: decision is 'non_compliant' but risk_score is low">>
          ELSE IF res.confidence < 50 /\ res.decision # "insufficient_evidence"
            THEN <<"Low confidence should result in 'insufficient_evidence' decision">>
          ELSE IF res.decision # "insufficient_evidence" /\ res.citations = <<>>
            THEN <<"Compliant/non-compliant decisions must include citations">>
          ELSE IF Len(res.rationale) < 50
            THEN <<"Rationale is too brief (minimum 50 characters)">>
          ELSE <<>>
    IN [is_valid |-> Len(first) = 0, errors |-> first, validated_result |-> res]

\* GuardrailsManager.validate_result_schema; 0.7, 0.3 and 0.5 in hundredths.
validate_result_schema(res) ==
  IF SchemaInvalid(res)
    THEN [is_valid |-> FALSE, errors |-> <<"Schema validation error">>,
          validated_result |-> None]
  ELSE
    LET validation_errors ==
          (IF res.decision = "compliant" /\ res.risk_score > 70
             THEN <<"Inconsistent: decision is 'compliant' but risk_score is high">>
             ELSE <<>>)
          \o (IF res.decision = "non_compliant" /\ res.risk_score < 30
                THEN <<"Inconsistent: decision is 'non_compliant' but risk_score is low">>
                ELSE <<>>)
          \o (IF res.confidence < 50 /\ res.decision # "insufficient_evidence"
                THEN <<"Low confidence should result in 'insufficient_evidence' decision">>
                ELSE <<>>)
          \o (IF res.decision # "insufficient_evidence" /\ res.citations = <<>>
                THEN <<"Compliant/non-compliant decisions must include citations">>
                ELSE <<>>)
          \o (IF Len(res.rationale) < 50
                THEN <<"Rationale is too brief (minimum 50 characters)">>
                ELSE <<>>)
    IN [is_valid |-> Len(validation_errors) = 0,
        errors |-> validation_errors,
        validated_result |-> res]

(* ------------------------------ state ---------------------------------- *)

VARIABLES
  pc,                     \* position of each run_workflow task
  sid,                    \* session_id argument of each run
  task,                   \* the four collection tasks handed to asyncio.gather
  context,                \* the context dict of each run (agent results, hitl_responses)
  round,                  \* locals of the _request_human_input call in progress
  events,                 \* progress updates each run handed to the transport
  sessions,               \* DatabaseManager._sessions
  agent_status,           \* BaseAgent.status of the six shared agent objects
  pending_hitl_requests,  \* request_id -> whether the asyncio.Event is set
  hitl_responses,         \* request_id -> buffered response dict
  active_connections,     \* ConnectionManager.active_connections (its keys)
  next_id,                \* the next uuid4 value
  sent_requests,          \* request ids that reached an operator's socket
  responses_left,         \* messages the operators may still send
  first_accepted,         \* request_id -> the first response stored for it
  faults_left,            \* faults the environment may still inject
  returned,               \* what each finished round returned to run_workflow
  final_saved,            \* whether the run's save_final_result has returned
  fault,                  \* message of the exception that ended the run
  clients,                \* session ids the operators' clients were created with
  critic_payloads,        \* payloads the critic's execute may return
  risk_payloads,          \* payloads the risk scorer's execute may return
  query,                  \* the query argument of each POST /ask
  reply,                  \* what each POST /ask answered
  validation,             \* the validation local of each POST /ask
  checked_result,         \* the result argument of validate_result_schema
  validated,              \* what validate_result_schema returned
  attempts,               \* execute calls made by each run_with_timeout call
  execution_time,         \* the execution_time attribute of each agent object
  invocations,            \* the run_with_timeout calls made on one agent object, in order
  synthesized,            \* the context and the result of a _generate_final_result call made outside the runs
  outcome                 \* how each agent's execute call ended, per run

vars ==
  <<pc, sid, task, context, round, events, sessions, agent_status,
    pending_hitl_requests, hitl_responses, active_connections, next_id,
    sent_requests, responses_left, first_accepted, faults_left, returned,
    final_saved, fault, clients, critic_payloads, synthesized, invocations, execution_time, attempts, validated, checked_result, validation, reply, query, risk_payloads, outcome>>

\* The ways one execute call can end: it returns a payload, raises an
\* exception of some class, or is still running when the timeout expires.
ExecOutcomes(a) ==
  {[kind |-> "return", payload |-> p] :
     p \in IF a = "red_team_critic" THEN critic_payloads
           ELSE IF a = "risk_scorer" THEN risk_payloads
           ELSE SuccessPayloads(a)}
    \cup {[kind |-> "raise", exc |-> e] : e \in {"Exception", "TimeoutError"}}
    \cup {[kind |-> "exceed"]}

EmptyDict == <<>>

NoRound == [q |-> 0, request_id |-> 0, prompt |-> "", response |-> None, timed_out |-> FALSE]

NoTask == [st |-> "none"]

\* The state after lifespan() has built the DatabaseManager (in-memory
\* fallback), the orchestrator and the ConnectionManager; the callers will
\* post the queries of the runs in started, operators' clients exist for
\* the session ids in who, the critic returns a payload of critic and the
\* risk scorer one of risk; arg is the result dict validate_result_schema
\* will be called with, if any.
InitWith(started, who, faults, responses, critic, risk, arg) ==
  /\ pc = [r \in Runs |-> IF r \in started THEN "idle" ELSE "off"]
  /\ sid = [r \in Runs |-> "none"]
  /\ task = [r \in Runs |-> [a \in CollectionSet |-> NoTask]]
  /\ context = [r \in Runs |-> [agents |-> EmptyDict, hitl_responses |-> <<>>]]
  /\ round = [r \in Runs |-> NoRound]
  /\ events = [r \in Runs |-> <<>>]
  /\ sessions = [s \in SessionIds |-> None]
  /\ agent_status = [a \in AgentKeys |-> "idle"]
  /\ pending_hitl_requests = EmptyDict
  /\ hitl_responses = EmptyDict
  /\ active_connections = {}
  /\ next_id = 1
  /\ sent_requests = {}
  /\ responses_left = responses
  /\ first_accepted = EmptyDict
  /\ faults_left = faults
  /\ returned = [r \in Runs |-> <<>>]
  /\ final_saved = [r \in Runs |-> FALSE]
  /\ fault = [r \in Runs |-> "none"]
  /\ clients = who
  /\ critic_payloads = critic
  /\ risk_payloads = risk
  /\ query = [r \in Runs |-> None]
  /\ reply = [r \in Runs |-> None]
  /\ validation = [r \in Runs |-> None]
  /\ checked_result = arg
  /\ validated = None
  /\ attempts = [r \in Runs |-> [a \in AgentKeys |-> 0]]
  /\ outcome = [r \in Runs |-> [a \in AgentKeys |-> None]]
  /\ execution_time = [a \in AgentKeys |-> 0]
  /\ invocations = <<>>
  /\ synthesized = None

Init ==
  InitWith({"r1"}, {"s1"}, MaxFaults, MaxResponses, SuccessPayloads("red_team_critic"),
           SuccessPayloads("risk_scorer"), None)

InitHitl ==
  InitWith({"r1"}, {"s1"}, MaxFaultsHitl, MaxResponsesHitl,
           SuccessPayloads("red_team_critic"), SuccessPayloads("risk_scorer"), None)

InitTwo ==
  InitWith(Runs, SessionIds, MaxFaultsTwo, MaxResponsesTwo, OneQuestionPayloads,
           SuccessPayloads("risk_scorer"), None)

\* One run in which two faults may happen.
InitFaults ==
  InitWith({"r1"}, {"s1"}, MaxFaultsWide, MaxResponses, SuccessPayloads("red_team_critic"),
           SuccessPayloads("risk_scorer"), None)

\* No run; validate_result_schema is about to be called with some result
\* dict.
InitValidate ==
  \E arg \in Results :
    InitWith({}, {}, MaxFaultsTwo, MaxResponsesTwo, OneQuestionPayloads,
             SuccessPayloads("risk_scorer"), arg)

\* One run whose critic asks two questions, an operator who may answer
\* both.
InitAnswered ==
  InitWith({"r1"}, {"s1"}, MaxFaultsHitl, MaxResponsesHitl, TwoQuestionPayloads,
           SuccessPayloads("risk_scorer"), None)

\* Two callers about to post a query, no operators.
InitScreen ==
  InitWith(Runs, {}, MaxFaultsTwo, MaxResponsesTwo, OneQuestionPayloads,
           SuccessPayloads("risk_scorer"), None)

\* One run without operators and faults, whose risk scorer returns one
\* pair of scores of the 0.01 grid.
InitSynthesis ==
  \E risk_score \in Scores, confidence \in Scores :
    InitWith({"r1"}, {}, MaxFaultsHitl, MaxResponsesHitl, NoHitlPayloads,
             {RiskPayload(risk_score, confidence)}, None)

(* --------------------------- agent runner ------------------------------ *)

\* Variant of run_with_timeout without the except Exception branch: an
\* exception of execute reaches the caller.
run_with_timeout_reraising(a, o) ==
  CASE o.kind = "return" ->
         [raised |-> FALSE, result |-> o.payload, status |-> "completed"]
    [] o.kind = "exceed" ->
         [raised |-> FALSE,
          result |-> [agent |-> SelfName(a), status |-> "timeout", error |-> "Agent timed out"],
          status |-> "timeout"]
    [] OTHER ->
         [raised |-> TRUE, error |-> FaultMessage(o.exc), status |-> "running"]

\* BaseAgent.run_with_timeout on an execute call that ends as o: what the
\* caller gets (a returned dict, or an exception) and the status left behind.
\* asyncio.TimeoutError is caught first, whoever raised it.
run_with_timeout(a, o) ==
  CASE o.kind = "return" ->
         [raised |-> FALSE, result |-> o.payload, status |-> "completed"]
    [] o.kind = "exceed" \/ (o.kind = "raise" /\ o.exc = "TimeoutError") ->
         [raised |-> FALSE,
          result |-> [agent |-> SelfName(a), status |-> "timeout", error |-> "Agent timed out"],
          status |-> "timeout"]
    [] OTHER ->
         [raised |-> FALSE,
          result |-> [agent |-> SelfName(a), status |-> "failed", error |-> FaultMessage(o.exc)],
          status |-> "failed"]

\* The dict an execute returns: "execution_time": self.execution_time, read
\* when the return statement runs.
TimedPayload(p, t) == [execution_time |-> t] @@ p

\* The agent objects invoked outside the runs.
InvokedAgents == {"policy_retriever"}

\* One whole run_with_timeout call on agent object a whose execute ends as o
\* after d ticks: execute builds its payload with the attribute as it is,
\* the try/except picks the result and the status, and the finally block
\* stores the elapsed time in the attribute.
Invoke(a, o, d) ==
  /\ a \in InvokedAgents
  /\ Len(invocations) < MaxInvocations
  /\ o \in ExecOutcomes(a)
  /\ d \in 1..MaxElapsed
  /\ LET ended == IF o.kind = "return"
                    THEN [o EXCEPT !.payload = TimedPayload(o.payload, execution_time[a])]
                    ELSE o
         res == run_with_timeout(a, ended)
     IN
       /\ invocations' = Append(invocations,
                                [agent |-> a, elapsed |-> d, result |-> res.result])
       /\ agent_status' = [agent_status EXCEPT ![a] = res.status]
  /\ execution_time' = [execution_time EXCEPT ![a] = d]
  /\ UNCHANGED <<pc, sid, task, context, round, events, sessions,
                 pending_hitl_requests, hitl_responses, active_connections, next_id,
                 sent_requests, responses_left, first_accepted, faults_left, returned,
                 final_saved, fault, clients, critic_payloads, synthesized, attempts, validated,
                 checked_result, validation, reply, query, risk_payloads, outcome>>

\* The retrieval that run_agent_with_context awaits before the agent: the
\* task ends with the retrieval's exception and the agent is never invoked.
RetrievalRaised == [raised |-> TRUE, error |-> "retrieval failed"]

\* The element of gather(..., return_exceptions=True)'s list for one task,
\* after the isinstance(result, Exception) conversion of run_workflow.
CollectionResult(a, t) ==
  IF t.raised THEN [agent |-> a, status |-> "failed", error |-> t.error] ELSE t.result

(* ---------------------------- session store ---------------------------- *)

\* The in-memory branch of DatabaseManager (self.db is None).
create_session(S, s) ==
  [S EXCEPT ![s] = [agent_outputs |-> EmptyDict, human_interactions |-> <<>>,
                    final_result |-> None]]

save_agent_output(S, s, a, output) ==
  IF S[s] # None THEN [S EXCEPT ![s].agent_outputs = (a :> output) @@ @] ELSE S

\* Variant of save_human_interaction that records resolved rounds only.
save_human_interaction_resolved_only(S, s, interaction) ==
  IF S[s] # None /\ interaction.status = "provided"
    THEN [S EXCEPT ![s].human_interactions = Append(@, interaction)]
    ELSE S

save_human_interaction(S, s, interaction) ==
  IF S[s] # None
    THEN [S EXCEPT ![s].human_interactions = Append(@, interaction)]
    ELSE S

save_final_result(S, s, result) ==
  IF S[s] # None THEN [S EXCEPT ![s].final_result = result] ELSE S

(* ------------------------------ transport ------------------------------ *)

\* A store call may raise at any time; websocket.send_text may raise only when
\* the session has a registered socket (without one nothing is sent).
CanRaise(kind, s) == kind = "store" \/ s \in active_connections

FaultPoints(calls, s) ==
  {0} \cup {k \in 1..Len(calls) : faults_left > 0 /\ CanRaise(calls[k], s)}

\* Faults an action draws from the budget: o is the execute outcome (or None),
\* f the index of the call that raises.
Cost(o, f) == (IF o # None /\ IsFault(o) THEN 1 ELSE 0) + (IF f # 0 THEN 1 ELSE 0)

ProgressUpdate(stage, status) == [stage |-> stage, status |-> status, meta |-> None]

ErrorUpdate(msg) == [stage |-> "error", status |-> "failed", meta |-> [error |-> msg]]

\* The except branch of run_workflow: report the error, then re-raise. h tells
\* whether the report's own send raises.
HandlerOutcomes(s) == IF s \in active_connections THEN {"ok", "raise"} ELSE {"ok"}

AfterError(evs, msg, h) == IF h = "ok" THEN Append(evs, ErrorUpdate(msg)) ELSE evs

FaultText(kind) == IF kind = "store" THEN "store error" ELSE "send failed"

(* ------------------------------ entry point ---------------------------- *)

\* _get_validation_reason; ", ".join raises TypeError on a tuple.
get_validation_reason(is_safe, is_compliance, unsafe_matches) ==
  IF ~is_safe
    THEN IF \E i \in 1..Len(unsafe_matches) : unsafe_matches[i] = "tuple"
           THEN [raised |-> TRUE, error |-> "TypeError"]
           ELSE [raised |-> FALSE, text |-> "unsafe content"]
  ELSE IF ~is_compliance
    THEN [raised |-> FALSE, text |-> "not compliance-related"]
  ELSE [raised |-> FALSE, text |-> "acceptable"]

\* validate_query_safety: the returned dict, or the exception of
\* _get_validation_reason.
validate_query_safety(q) ==
  LET is_safe == Len(q.unsafe_matches) = 0
      is_compliance_related == q.compliance_score >= 1 \/ q.words < 5
      reason == get_validation_reason(is_safe, is_compliance_related, q.unsafe_matches)
  IN
    IF reason.raised THEN reason
    ELSE [raised |-> FALSE,
          is_safe |-> is_safe,
          is_compliance_related |-> is_compliance_related,
          unsafe_matches |-> q.unsafe_matches,
          compliance_score |-> q.compliance_score,
          reason |-> reason.text]

\* create_safe_refusal(reason).dict()
create_safe_refusal(reason) ==
  [decision |-> "insufficient_evidence",
   confidence |-> 0,
   risk_score |-> 0,
   rationale |-> <<"refusal", reason>>,
   citations |-> <<>>,
   open_questions |-> <<>>,
   human_interactions |-> <<>>]

\* A call of guardrails.validate_result_schema(result).
ValidateResult ==
  /\ checked_result # None
  /\ validated = None
  /\ validated' = validate_result_schema(checked_result)
  /\ UNCHANGED <<pc, sid, task, context, round, events, sessions, agent_status,
                 pending_hitl_requests, hitl_responses, active_connections, next_id,
                 sent_requests, responses_left, first_accepted, faults_left, returned,
                 final_saved, fault, clients, critic_payloads, synthesized, invocations, execution_time, attempts, risk_payloads, query,
                 reply, validation, checked_result, attempts, outcome>>

\* A query the screen is to stop: it matches an unsafe pattern, or it has no
\* compliance keyword and five words or more.
Stopped(q) == Len(q.unsafe_matches) > 0 \/ (q.compliance_score = 0 /\ q.words >= 5)

\* The queries posted in the runs: those the screen stops, and one it lets
\* through (what an accepted query says has no effect on the run).
PostedQueries ==
  {q \in Queries :
     \/ validate_query_safety(q).raised
     \/ ~validate_query_safety(q).is_safe
     \/ ~validate_query_safety(q).is_compliance_related
     \/ (q.compliance_score = 1 /\ q.words = 5)}

UsedIds == {sid[r] : r \in Runs} \ {"none"}

\* A session id the caller may pass: one already in use, or a new one (a
\* fresh uuid4 when none is passed); new ones are taken in a fixed order.
CallerIds ==
  UsedIds \cup
    {SessionOrder[i] : i \in {j \in 1..Len(SessionOrder) :
        /\ SessionOrder[j] \notin UsedIds
        /\ \A k \in 1..(j - 1) : SessionOrder[k] \in UsedIds}}

\* The posted queries the screen lets through.
AcceptedQueries == {q \in PostedQueries : ~Stopped(q)}

\* POST /ask: refuse, or create the run_workflow task and return "started"
\* (check_rate_limit always allows); an exception of the screen leaves the
\* handler and the server answers 500.
ask_question(r, s, q) ==
  /\ pc[r] = "idle"
  /\ s \in CallerIds
  /\ sid' = [sid EXCEPT ![r] = s]
  /\ query' = [query EXCEPT ![r] = q]
  /\ validation' = [validation EXCEPT ![r] = validate_query_safety(q)]
  /\ LET v == validate_query_safety(q) IN
       IF v.raised
         THEN /\ pc' = [pc EXCEPT ![r] = "errored"]
              /\ reply' = [reply EXCEPT ![r] = [status_code |-> 500]]
       ELSE IF ~v.is_safe \/ ~v.is_compliance_related
         THEN /\ pc' = [pc EXCEPT ![r] = "refused"]
              /\ reply' = [reply EXCEPT ![r] =
                             [session_id |-> s,
                              status |-> "refused",
                              result |-> create_safe_refusal(v.reason),
                              reason |-> v.reason]]
       ELSE /\ pc' = [pc EXCEPT ![r] = "spawned"]
            /\ reply' = [reply EXCEPT ![r] = [session_id |-> s, status |-> "started"]]
  /\ UNCHANGED <<task, context, round, events, sessions, agent_status,
                 pending_hitl_requests, hitl_responses, active_connections, next_id,
                 sent_requests, responses_left, first_accepted, faults_left, returned,
                 final_saved, fault, clients, critic_payloads, synthesized, invocations, execution_time, attempts, validated, checked_result, risk_payloads, outcome>>

(* --------------------------- run_workflow ------------------------------ *)

\* create_session, stage 1 and the start of stage 2, up to the await of
\* asyncio.gather: each task runs its retrieval (those in R raise) and then
\* enters run_with_timeout, which sets the agent's status.
StartCalls == <<"store", "transport", "transport">>

StartRun(r, f, R, h) ==
  /\ pc[r] = "spawned"
  /\ f \in FaultPoints(StartCalls, sid[r])
  /\ R \subseteq RetrievalAgents
  /\ Cardinality(R) <= faults_left
  /\ faults_left' = faults_left - Cardinality(R) - Cost(None, f)
  /\ h \in HandlerOutcomes(sid[r])
  /\ f \in {0, 1} => h = "ok"
  /\ f # 0 => R = {}
  /\ sessions' = IF f = 1 THEN sessions ELSE create_session(sessions, sid[r])
  /\ LET evs == IF f = 2 THEN <<>>
                 ELSE IF f = 3 THEN <<ProgressUpdate("planner_started", "started")>>
                 ELSE <<ProgressUpdate("planner_started", "started"),
                        ProgressUpdate("parallel_collection", "started")>>
     IN
       CASE f = 0 ->
              /\ pc' = [pc EXCEPT ![r] = "gathering"]
              /\ events' = [events EXCEPT ![r] = evs]
              /\ fault' = fault
              /\ task' = [task EXCEPT ![r] =
                           [a \in CollectionSet |->
                              IF a \in R
                                THEN [st |-> "done", raised |-> TRUE,
                                      error |-> RetrievalRaised.error]
                                ELSE [st |-> "running"]]]
              /\ agent_status' = [a \in AgentKeys |->
                                    IF a \in CollectionSet \ R THEN "running"
                                    ELSE agent_status[a]]
         [] f = 1 ->
              /\ pc' = [pc EXCEPT ![r] = "crashed"]
              /\ fault' = [fault EXCEPT ![r] = FaultText("store")]
              /\ UNCHANGED <<events, task, agent_status>>
         [] OTHER ->
              /\ pc' = [pc EXCEPT ![r] = "aborted"]
              /\ events' = [events EXCEPT ![r] = AfterError(evs, FaultText("transport"), h)]
              /\ fault' = [fault EXCEPT ![r] = FaultText("transport")]
              /\ UNCHANGED <<task, agent_status>>
  /\ UNCHANGED <<clients, critic_payloads, synthesized, invocations, execution_time, attempts, validated, checked_result, validation, reply, query, risk_payloads, outcome, sid, context, round, pending_hitl_requests, hitl_responses,
                 active_connections, next_id, sent_requests, responses_left, first_accepted, returned,
                 final_saved>>

\* Variant of CollectorFinish for a gather that cancels the siblings of a
\* task whose agent faulted or timed out.
CollectorFinishCancelling(r, a, o) ==
  /\ pc[r] = "gathering"
  /\ a \in CollectionSet
  /\ task[r][a].st = "running"
  /\ o \in ExecOutcomes(a)
  /\ IsFault(o) => faults_left > 0
  /\ LET res == run_with_timeout(a, o) IN
       /\ task' = [task EXCEPT ![r] =
                     [b \in CollectionSet |->
                        IF b = a
                          THEN [st |-> "done", raised |-> FALSE, result |-> res.result]
                          ELSE IF IsFault(o) /\ task[r][b].st = "running"
                                 THEN [st |-> "done", raised |-> TRUE, error |-> "cancelled"]
                                 ELSE task[r][b]]]
       /\ agent_status' = [agent_status EXCEPT ![a] = res.status]
  /\ faults_left' = IF IsFault(o) THEN faults_left - 1 ELSE faults_left
  /\ outcome' = [outcome EXCEPT ![r][a] = o]
  /\ attempts' = [attempts EXCEPT ![r][a] = @ + 1]
  /\ execution_time' = [execution_time EXCEPT ![a] = RunElapsed]
  /\ UNCHANGED <<pc, sid, context, round, events, sessions, pending_hitl_requests,
                 hitl_responses, active_connections, next_id, sent_requests,
                 responses_left, first_accepted, returned, final_saved, fault,
                 clients, critic_payloads, synthesized, invocations, validated, checked_result, validation, reply, query, risk_payloads>>

\* One collection task's run_with_timeout call ends as o.
CollectorFinish(r, a, o) ==
  /\ pc[r] = "gathering"
  /\ a \in CollectionSet
  /\ task[r][a].st = "running"
  /\ o \in ExecOutcomes(a)
  /\ IsFault(o) => faults_left > 0
  /\ LET res == run_with_timeout(a, o) IN
       /\ task' = [task EXCEPT ![r][a] =
                     IF res.raised
                       THEN [st |-> "done", raised |-> TRUE, error |-> res.error]
                       ELSE [st |-> "done", raised |-> FALSE, result |-> res.result]]
       /\ agent_status' = [agent_status EXCEPT ![a] = res.status]
  /\ faults_left' = IF IsFault(o) THEN faults_left - 1 ELSE faults_left
  /\ outcome' = [outcome EXCEPT ![r][a] = o]
  /\ attempts' = [attempts EXCEPT ![r][a] = @ + 1]
  /\ execution_time' = [execution_time EXCEPT ![a] = RunElapsed]
  /\ UNCHANGED <<pc, sid, context, round, events, sessions, pending_hitl_requests,
                 hitl_responses, active_connections, next_id, sent_requests,
                 responses_left, first_accepted, returned, final_saved, fault,
                 clients, critic_payloads, synthesized, invocations, validated, checked_result, validation, reply, query, risk_payloads>>

\* gather has returned: the loop over collection_results (context write, then
\* save_agent_output, per agent in list order), the end of stage 2 and the
\* start of stage 3, up to the await of the risk scorer.
GatherCalls == <<"store", "store", "store", "store", "transport", "transport">>

\* Variant of ContextWrites for a loop that stops one result short.
ContextWritesShort(f) ==
  IF f \in 1..Len(CollectionAgents) THEN f ELSE Len(CollectionAgents) - 1

\* Number of loop iterations that wrote context / whose save returned.
ContextWrites(f) == IF f \in 1..Len(CollectionAgents) THEN f ELSE Len(CollectionAgents)
OutputSaves(f) == IF f \in 1..Len(CollectionAgents) THEN f - 1 ELSE Len(CollectionAgents)

FirstAgents(n) == {CollectionAgents[i] : i \in 1..n}

\* Position of agent a in the list of names of the result loop.
Index(a) == CHOOSE i \in 1..Len(CollectionAgents) : CollectionAgents[i] = a

\* Variant of Gathered for a gather that lists its results last task first.
GatheredReversed(tasks) ==
  [i \in 1..Len(CollectionAgents) |-> tasks[CollectionAgents[Len(CollectionAgents) + 1 - i]]]

\* collection_results: asyncio.gather lists the tasks' results (or
\* exceptions) in the order of its arguments, whatever the order in which
\* the tasks ended.
Gathered(tasks) == [i \in 1..Len(CollectionAgents) |-> tasks[CollectionAgents[i]]]

\* The result the n-th iteration of the loop writes under the n-th name.
LoopResult(r, n) == CollectionResult(CollectionAgents[n], Gathered(task[r])[n])

\* The store after the first n iterations' save_agent_output calls.
RECURSIVE SaveOutputs(_, _, _)
SaveOutputs(S, r, n) ==
  IF n = 0 THEN S
  ELSE save_agent_output(SaveOutputs(S, r, n - 1), sid[r], CollectionAgents[n],
                         LoopResult(r, n))

GatherDone(r, f, h) ==
  /\ pc[r] = "gathering"
  /\ \A a \in CollectionSet : task[r][a].st = "done"
  /\ f \in FaultPoints(GatherCalls, sid[r])
  /\ faults_left' = faults_left - Cost(None, f)
  /\ h \in HandlerOutcomes(sid[r])
  /\ f = 0 => h = "ok"
  /\ LET res(a) == LoopResult(r, Index(a))
         evs == IF f \in {0, 6}
                  THEN Append(events[r], ProgressUpdate("rag_done", "completed"))
                  ELSE events[r]
     IN
       /\ context' = [context EXCEPT ![r].agents =
                        [a \in FirstAgents(ContextWrites(f)) |-> res(a)] @@ @]
       /\ sessions' = SaveOutputs(sessions, r, OutputSaves(f))
       /\ IF f = 0
            THEN /\ pc' = [pc EXCEPT ![r] = "risk"]
                 /\ events' = [events EXCEPT ![r] =
                                 Append(evs, ProgressUpdate("risk_scoring", "started"))]
                 /\ agent_status' = [agent_status EXCEPT !["risk_scorer"] = "running"]
                 /\ fault' = fault
            ELSE /\ pc' = [pc EXCEPT ![r] = "aborted"]
                 /\ events' = [events EXCEPT ![r] =
                                 AfterError(evs, FaultText(GatherCalls[f]), h)]
                 /\ fault' = [fault EXCEPT ![r] = FaultText(GatherCalls[f])]
                 /\ UNCHANGED agent_status
  /\ UNCHANGED <<clients, critic_payloads, synthesized, invocations, execution_time, attempts, validated, checked_result, validation, reply, query, risk_payloads, outcome, sid, task, round, pending_hitl_requests, hitl_responses,
                 active_connections, next_id, sent_requests, responses_left,
                 first_accepted, returned, final_saved>>

\* Variant of WriteEntry that starts the dict anew.
WriteEntryAnew(ctx, a, result) == (a :> result)

\* context[agent_name] = result
WriteEntry(ctx, a, result) == (a :> result) @@ ctx

\* An awaited agent call of stage 3 or 4 ends as o: what run_workflow gets.
run_agent_with_context(a, o) == run_with_timeout(a, o)

\* The risk scorer's call ends: context write, save_agent_output, start of
\* stage 4, up to the await of the critic.
RiskCalls == <<"store", "transport">>

RiskFinish(r, o, f, h) ==
  /\ pc[r] = "risk"
  /\ o \in ExecOutcomes("risk_scorer")
  /\ f \in FaultPoints(RiskCalls, sid[r])
  /\ Cost(o, f) <= faults_left
  /\ h \in HandlerOutcomes(sid[r])
  /\ LET res == run_agent_with_context("risk_scorer", o)
     IN
       /\ res.raised => f = 0
       /\ (~res.raised /\ f = 0) => h = "ok"
       /\ context' = IF res.raised THEN context
                      ELSE [context EXCEPT ![r].agents = WriteEntry(@, "risk_scorer", res.result)]
       /\ sessions' = IF res.raised \/ f = 1 THEN sessions
                       ELSE save_agent_output(sessions, sid[r], "risk_scorer", res.result)
       /\ CASE res.raised ->
                 /\ pc' = [pc EXCEPT ![r] = "aborted"]
                 /\ events' = [events EXCEPT ![r] = AfterError(@, res.error, h)]
                 /\ fault' = [fault EXCEPT ![r] = res.error]
                 /\ agent_status' = [agent_status EXCEPT !["risk_scorer"] = res.status]
            [] ~res.raised /\ f = 0 ->
                 /\ pc' = [pc EXCEPT ![r] = "critic"]
                 /\ events' = [events EXCEPT ![r] =
                                 Append(@, ProgressUpdate("critic_flags", "started"))]
                 /\ fault' = fault
                 /\ agent_status' = [agent_status EXCEPT !["risk_scorer"] = res.status,
                                                          !["red_team_critic"] = "running"]
            [] OTHER ->
                 /\ pc' = [pc EXCEPT ![r] = "aborted"]
                 /\ events' = [events EXCEPT ![r] = AfterError(@, FaultText(RiskCalls[f]), h)]
                 /\ fault' = [fault EXCEPT ![r] = FaultText(RiskCalls[f])]
                 /\ agent_status' = [agent_status EXCEPT !["risk_scorer"] = res.status]
  /\ faults_left' = faults_left - Cost(o, f)
  /\ outcome' = [outcome EXCEPT ![r]["risk_scorer"] = o]
  /\ attempts' = [attempts EXCEPT ![r]["risk_scorer"] = @ + 1]
  /\ execution_time' = [execution_time EXCEPT !["risk_scorer"] = RunElapsed]
  /\ UNCHANGED <<clients, critic_payloads, synthesized, invocations, validated, checked_result, validation, reply, query, risk_payloads, sid, task, round, pending_hitl_requests, hitl_responses,
                 active_connections, next_id, sent_requests, responses_left, first_accepted, returned,
                 final_saved>>

\* Variant of AskedQuestions without the slice.
AskedQuestionsUncapped(critic_result) == Get(critic_result, "follow_up_questions", <<>>)

\* follow_up_questions[:2] of a critic result
AskedQuestions(critic_result) ==
  LET qs == Get(critic_result, "follow_up_questions", <<>>) IN
    SubSeq(qs, 1, IF Len(qs) < HitlQuestionCap THEN Len(qs) ELSE HitlQuestionCap)

\* The critic's call ends: context write, save_agent_output, the needs_hitl
\* test and, when set, the awaiting_human update; then the first round or
\* stage 6.
CriticCalls == <<"store", "transport">>

CriticFinish(r, o, f, h) ==
  /\ pc[r] = "critic"
  /\ o \in ExecOutcomes("red_team_critic")
  /\ f \in FaultPoints(CriticCalls, sid[r])
  /\ Cost(o, f) <= faults_left
  /\ h \in HandlerOutcomes(sid[r])
  /\ LET res == run_agent_with_context("red_team_critic", o)
         needs_hitl == ~res.raised /\ Get(res.result, "needs_hitl", FALSE)
     IN
       /\ res.raised => f = 0
       /\ f = 2 => needs_hitl
       /\ (~res.raised /\ f = 0) => h = "ok"
       /\ agent_status' = [agent_status EXCEPT !["red_team_critic"] = res.status]
       /\ context' = IF res.raised THEN context
                      ELSE [context EXCEPT ![r].agents = WriteEntry(@, "red_team_critic", res.result)]
       /\ sessions' = IF res.raised \/ f = 1 THEN sessions
                       ELSE save_agent_output(sessions, sid[r], "red_team_critic", res.result)
       /\ CASE res.raised ->
                 /\ pc' = [pc EXCEPT ![r] = "aborted"]
                 /\ events' = [events EXCEPT ![r] = AfterError(@, res.error, h)]
                 /\ fault' = [fault EXCEPT ![r] = res.error]
            [] ~res.raised /\ f = 0 ->
                 /\ pc' = [pc EXCEPT ![r] =
                             IF needs_hitl /\ Len(AskedQuestions(res.result)) > 0
                               THEN "hitl" ELSE "finalize"]
                 /\ events' = [events EXCEPT ![r] =
                                 IF needs_hitl
                                   THEN Append(@, ProgressUpdate("awaiting_human", "started"))
                                   ELSE @]
                 /\ fault' = fault
            [] OTHER ->
                 /\ pc' = [pc EXCEPT ![r] = "aborted"]
                 /\ events' = [events EXCEPT ![r] = AfterError(@, FaultText(CriticCalls[f]), h)]
                 /\ fault' = [fault EXCEPT ![r] = FaultText(CriticCalls[f])]
  /\ faults_left' = faults_left - Cost(o, f)
  /\ outcome' = [outcome EXCEPT ![r]["red_team_critic"] = o]
  /\ attempts' = [attempts EXCEPT ![r]["red_team_critic"] = @ + 1]
  /\ execution_time' = [execution_time EXCEPT !["red_team_critic"] = RunElapsed]
  /\ UNCHANGED <<clients, critic_payloads, synthesized, invocations, validated, checked_result, validation, reply, query, risk_payloads, sid, task, round, pending_hitl_requests, hitl_responses,
                 active_connections, next_id, sent_requests, responses_left, first_accepted, returned,
                 final_saved>>

(* ------------------------- HITL correlation ---------------------------- *)

\* dict.pop(key, None)
\* Variant of Pop for a cleanup that empties the table.
PopAll(d, k) == EmptyDict

\* Variant of Pop for a round that leaves its entry in the table.
PopNothing(d, k) == d

Pop(d, k) == [x \in DOMAIN d \ {k} |-> d[x]]

HumanInteraction(prompt, response, status) ==
  [type |-> "clarification", prompt |-> prompt, response |-> response, status |-> status]

\* _request_human_input up to its wait: a fresh request_id, the Event put into
\* pending_hitl_requests, then send_hitl_request, which is awaited before the
\* try block is entered.
BeginCalls == <<"transport">>

BeginRound(r, f, h) ==
  /\ pc[r] = "hitl"
  /\ f \in FaultPoints(BeginCalls, sid[r])
  /\ faults_left' = faults_left - Cost(None, f)
  /\ h \in HandlerOutcomes(sid[r])
  /\ f = 0 => h = "ok"
  /\ LET request_id == next_id
         asked == AskedQuestions(context[r].agents["red_team_critic"])
         prompt == asked[round[r].q + 1]
     IN
       /\ next_id' = next_id + 1
       /\ pending_hitl_requests' = (request_id :> FALSE) @@ pending_hitl_requests
       /\ round' = [round EXCEPT ![r] =
                      [q |-> round[r].q + 1, request_id |-> request_id, prompt |-> prompt,
                       response |-> None, timed_out |-> FALSE]]
       /\ IF f = 0
            THEN /\ pc' = [pc EXCEPT ![r] = "waiting"]
                 /\ sent_requests' = IF sid[r] \in active_connections
                                        THEN sent_requests \cup {request_id}
                                        ELSE sent_requests
                 /\ UNCHANGED <<events, fault>>
            ELSE /\ pc' = [pc EXCEPT ![r] = "aborted"]
                 /\ events' = [events EXCEPT ![r] = AfterError(@, FaultText("transport"), h)]
                 /\ fault' = [fault EXCEPT ![r] = FaultText("transport")]
                 /\ UNCHANGED sent_requests
  /\ UNCHANGED <<clients, critic_payloads, synthesized, invocations, execution_time, attempts, validated, checked_result, validation, reply, query, risk_payloads, outcome, sid, task, context, sessions, agent_status, hitl_responses,
                 active_connections, responses_left, first_accepted, returned,
                 final_saved>>

\* Variant of handle_hitl_response that buffers the response before the
\* membership test.
handle_hitl_response_buffering(response) ==
  [responses |-> (response.request_id :> response) @@ hitl_responses,
   pending |-> IF response.request_id \in DOMAIN pending_hitl_requests
                 THEN [pending_hitl_requests EXCEPT ![response.request_id] = TRUE]
                 ELSE pending_hitl_requests]

\* Variant of handle_hitl_response without the membership test.
handle_hitl_response_unguarded(response) ==
  [responses |-> (response.request_id :> response) @@ hitl_responses,
   pending |-> (response.request_id :> TRUE) @@ pending_hitl_requests]

\* Variant of handle_hitl_response that matches by arrival order: a response
\* resolves the oldest registered wait, whatever identifier it carries.
handle_hitl_response_by_arrival(response) ==
  IF DOMAIN pending_hitl_requests # {}
    THEN LET oldest == CHOOSE i \in DOMAIN pending_hitl_requests :
                         \A j \in DOMAIN pending_hitl_requests : i <= j
         IN [responses |-> (oldest :> response) @@ hitl_responses,
             pending |-> [pending_hitl_requests EXCEPT ![oldest] = TRUE]]
    ELSE [responses |-> hitl_responses, pending |-> pending_hitl_requests]

\* handle_hitl_response: the two tables after the call.
handle_hitl_response(response) ==
  IF response.request_id \in DOMAIN pending_hitl_requests
    THEN [responses |-> (response.request_id :> response) @@ hitl_responses,
          pending |-> [pending_hitl_requests EXCEPT ![response.request_id] = TRUE]]
    ELSE [responses |-> hitl_responses, pending |-> pending_hitl_requests]

\* What the operator on connection c may send: its own session id, for a
\* request id that reached some operator or for one that was never issued.
OperatorResponses(c) ==
  {[session_id |-> c, request_id |-> i, response_type |-> k[1], payload |-> k[2]] :
     i \in sent_requests \cup NeverIssued, k \in ResponseKinds}

\* websocket_endpoint receives a hitl_response message on connection c.
websocket_endpoint(c, response) ==
  /\ c \in active_connections
  /\ responses_left > 0
  /\ response \in OperatorResponses(c)
  /\ LET after == handle_hitl_response(response) IN
       /\ hitl_responses' = after.responses
       /\ pending_hitl_requests' = after.pending
  /\ responses_left' = responses_left - 1
  /\ first_accepted' =
       IF /\ response.request_id \in DOMAIN pending_hitl_requests
          /\ response.request_id \notin DOMAIN first_accepted
         THEN (response.request_id :> response) @@ first_accepted
         ELSE first_accepted
  /\ UNCHANGED <<pc, sid, task, context, round, events, sessions, agent_status,
                 active_connections, next_id, sent_requests, faults_left, returned,
                 final_saved, fault, clients, critic_payloads, synthesized, invocations, execution_time, attempts, validated, checked_result, validation, reply, query, risk_payloads, outcome>>

\* wait_for returns because the Event is set: the buffered response is read.
WaitReturns(r) ==
  /\ pc[r] = "waiting"
  /\ pending_hitl_requests[round[r].request_id]
  /\ round' = [round EXCEPT ![r].response = Get(hitl_responses, round[r].request_id, None)]
  /\ pc' = [pc EXCEPT ![r] = "saving"]
  /\ UNCHANGED <<sid, task, context, events, sessions, agent_status,
                 pending_hitl_requests, hitl_responses, active_connections, next_id,
                 sent_requests, responses_left, first_accepted, faults_left, returned,
                 final_saved, fault, clients, critic_payloads, synthesized, invocations, execution_time, attempts, validated, checked_result, validation, reply, query, risk_payloads, outcome>>

\* Variant of WaitTimeout for a wait whose timer dies with the session's
\* connection.
WaitTimeoutWhileConnected(r) ==
  /\ pc[r] = "waiting"
  /\ sid[r] \in active_connections
  /\ round' = [round EXCEPT ![r].timed_out = TRUE]
  /\ pc' = [pc EXCEPT ![r] = "saving"]
  /\ UNCHANGED <<sid, task, context, events, sessions, agent_status,
                 pending_hitl_requests, hitl_responses, active_connections, next_id,
                 sent_requests, responses_left, first_accepted, faults_left, returned,
                 final_saved, fault, clients, critic_payloads, synthesized, invocations, execution_time, attempts, validated, checked_result, validation, reply, query, risk_payloads, outcome>>

\* wait_for raises TimeoutError: the 60 s budget ran out before the waiting
\* task resumed (the Event may have been set in the meantime).
WaitTimeout(r) ==
  /\ pc[r] = "waiting"
  /\ round' = [round EXCEPT ![r].timed_out = TRUE]
  /\ pc' = [pc EXCEPT ![r] = "saving"]
  /\ UNCHANGED <<sid, task, context, events, sessions, agent_status,
                 pending_hitl_requests, hitl_responses, active_connections, next_id,
                 sent_requests, responses_left, first_accepted, faults_left, returned,
                 final_saved, fault, clients, critic_payloads, synthesized, invocations, execution_time, attempts, validated, checked_result, validation, reply, query, risk_payloads, outcome>>

\* Variant of RoundInteraction whose expiry branch writes the text of the
\* empty-buffer branch.
RoundInteractionTimeoutText(rd) ==
  IF rd.timed_out \/ rd.response = None
    THEN HumanInteraction(rd.prompt, "timeout", "timeout")
    ELSE HumanInteraction(rd.prompt, Get(rd.response, "payload", ""), "provided")

\* The interaction the round records.
RoundInteraction(rd) ==
  IF rd.timed_out THEN HumanInteraction(rd.prompt, "", "timeout")
  ELSE IF rd.response # None
         THEN HumanInteraction(rd.prompt, Get(rd.response, "payload", ""), "provided")
         ELSE HumanInteraction(rd.prompt, "timeout", "timeout")

\* save_human_interaction is awaited, the finally block pops both tables, the
\* round returns; run_workflow appends a response to context and goes on to
\* the next question or to stage 6.
SaveCalls == <<"store">>

SaveInteraction(r, f, h) ==
  /\ pc[r] = "saving"
  /\ f \in FaultPoints(SaveCalls, sid[r])
  /\ faults_left' = faults_left - Cost(None, f)
  /\ h \in HandlerOutcomes(sid[r])
  /\ f = 0 => h = "ok"
  /\ pending_hitl_requests' = Pop(pending_hitl_requests, round[r].request_id)
  /\ hitl_responses' = Pop(hitl_responses, round[r].request_id)
  /\ IF f = 0
       THEN LET hitl_response == IF round[r].timed_out THEN None ELSE round[r].response
                asked == AskedQuestions(context[r].agents["red_team_critic"])
            IN
              /\ sessions' = save_human_interaction(sessions, sid[r], RoundInteraction(round[r]))
              /\ returned' = [returned EXCEPT ![r] =
                                Append(@, [request_id |-> round[r].request_id,
                                           response |-> hitl_response])]
              /\ context' = IF hitl_response # None
                               THEN [context EXCEPT ![r].hitl_responses = Append(@, hitl_response)]
                               ELSE context
              /\ pc' = [pc EXCEPT ![r] = IF round[r].q < Len(asked) THEN "hitl" ELSE "finalize"]
              /\ UNCHANGED <<events, fault>>
       ELSE /\ pc' = [pc EXCEPT ![r] = "aborted"]
            /\ events' = [events EXCEPT ![r] = AfterError(@, FaultText("store"), h)]
            /\ fault' = [fault EXCEPT ![r] = FaultText("store")]
            /\ UNCHANGED <<sessions, returned, context>>
  /\ UNCHANGED <<clients, critic_payloads, synthesized, invocations, execution_time, attempts, validated, checked_result, validation, reply, query, risk_payloads, outcome, sid, task, round, agent_status, active_connections, next_id,
                 sent_requests, responses_left, first_accepted, final_saved>>

(* --------------------------- result synthesis -------------------------- *)

\* len() of one rationale part: the two scores print as d.dd, the counts
\* are single digits.
PartLength(part) ==
  CASE part = "risk" -> 27
    [] part = "confidence" -> 25
    [] part = "policies" -> 34
    [] part = "evidence" -> 42
    [] part = "vision" -> 37
    [] part = "code" -> 57
    [] part = "gaps" -> 34

RECURSIVE JoinedLength(_)
\* len(". ".join(parts)) for a non-empty parts
JoinedLength(parts) ==
  IF Len(parts) = 1 THEN PartLength(parts[1])
  ELSE PartLength(parts[1]) + 2 + JoinedLength(Tail(parts))

\* len(rationale): ". ".join(rationale_parts) + "."
RationaleLength(parts) == JoinedLength(parts) + 1

\* Variant of the decision rule with inclusive thresholds.
DecisionInclusive(risk_score, confidence) ==
  IF risk_score <= 30 /\ confidence >= 80 THEN "compliant"
  ELSE IF risk_score >= 70 \/ confidence <= 60 THEN "insufficient_evidence"
  ELSE "non_compliant"

\* The decision logic of _generate_final_result; 0.3, 0.8, 0.7 and 0.6 in
\* hundredths (i/100 and the literals are the same doubles).
Decision(risk_score, confidence) ==
  IF risk_score < 30 /\ confidence > 80 THEN "compliant"
  ELSE IF risk_score > 70 \/ confidence < 60 THEN "insufficient_evidence"
  ELSE "non_compliant"

\* Variant of FinalInteractions that keeps the latest response only.
FinalInteractionsLatest(responses) ==
  IF Len(responses) = 0 THEN <<>>
  ELSE <<HumanInteraction(Get(responses[Len(responses)], "prompt", ""),
                          Get(responses[Len(responses)], "payload", ""), "provided")>>

\* The human_interactions of the final result: one entry per element of
\* context["hitl_responses"], each with status provided.
FinalInteractions(responses) ==
  [i \in 1..Len(responses) |->
     HumanInteraction(Get(responses[i], "prompt", ""),
                      Get(responses[i], "payload", ""), "provided")]

\* Citation(doc_id=d.get("doc_id", "unknown"), chunk_id=d.get("chunk_id",
\* "unknown"), snippet=d.get(text, "")).
Citation(d, text) ==
  [doc_id |-> Get(d, "doc_id", "unknown"),
   chunk_id |-> Get(d, "chunk_id", "unknown"),
   snippet |-> Get(d, text, "")]

\* Variant of Citations that lists a document once.
CitationsDeduplicated(policies, evidence, vision) ==
  LET all == [i \in 1..Len(policies) |-> Citation(policies[i], "snippet")]
               \o [i \in 1..Len(evidence) |-> Citation(evidence[i], "snippet")]
               \o [i \in 1..Len(vision) |-> Citation(vision[i], "content")]
      first == {i \in 1..Len(all) : \A j \in 1..(i - 1) : all[j] # all[i]}
      Rank(i) == Cardinality({j \in first : j <= i})
  IN [k \in 1..Cardinality(first) |-> all[CHOOSE i \in first : Rank(i) = k]]

\* The three citation loops of _generate_final_result.
Citations(policies, evidence, vision) ==
  [i \in 1..Len(policies) |-> Citation(policies[i], "snippet")]
    \o [i \in 1..Len(evidence) |-> Citation(evidence[i], "snippet")]
    \o [i \in 1..Len(vision) |-> Citation(vision[i], "content")]

\* Variant of ScoreOf whose defaults are those of a clean result.
ScoreOfClean(risk_data, key) ==
  Get(risk_data, key, IF key = "risk_score" THEN 0 ELSE ScoreMax)

\* risk_data.get(key, 0.5)
ScoreOf(risk_data, key) == Get(risk_data, key, DefaultScore)

\* _generate_final_result; scores are in hundredths.
generate_final_result(ctx) ==
  LET policy_data == Get(ctx.agents, "policy_retriever", EmptyDict)
      evidence_data == Get(ctx.agents, "evidence_collector", EmptyDict)
      vision_data == Get(ctx.agents, "vision_ocr", EmptyDict)
      code_data == Get(ctx.agents, "code_scanner", EmptyDict)
      risk_data == Get(ctx.agents, "risk_scorer", EmptyDict)
      critic_data == Get(ctx.agents, "red_team_critic", EmptyDict)
      policies == Get(policy_data, "policies", <<>>)
      evidence == Get(evidence_data, "evidence", <<>>)
      vision == Get(vision_data, "vision_evidence", <<>>)
      gaps == Get(critic_data, "gaps_identified", <<>>)
      risk_score == ScoreOf(risk_data, "risk_score")
      confidence == ScoreOf(risk_data, "confidence")
      decision == Decision(risk_score, confidence)
      rationale_parts ==
        <<"risk", "confidence">>
          \o (IF Len(policies) > 0 THEN <<"policies">> ELSE <<>>)
          \o (IF Len(evidence) > 0 THEN <<"evidence">> ELSE <<>>)
          \o (IF Len(vision) > 0 THEN <<"vision">> ELSE <<>>)
          \o (IF Get(code_data, "compliance_items", 0) > 0 THEN <<"code">> ELSE <<>>)
          \o (IF Len(gaps) > 0 THEN <<"gaps">> ELSE <<>>)
  IN
    [decision |-> decision,
     confidence |-> confidence,
     risk_score |-> risk_score,
     rationale |-> rationale_parts,
     citations |-> Citations(policies, evidence, vision),
     open_questions |-> Get(critic_data, "follow_up_questions", <<>>),
     human_interactions |-> FinalInteractions(ctx.hitl_responses)]

\* Lists of at most MaxDocs documents out of two, repetitions included.
DocLists(text) ==
  UNION {[1..n -> {Document(d, "chunk", text) : d \in {"DOC-1", "DOC-2"}}] : n \in 0..MaxDocs}

\* What run_with_timeout returns for agent a when execute raises or exceeds
\* the timeout.
FailureResults(a) ==
  {run_with_timeout(a, o).result : o \in {[kind |-> "raise", exc |-> "Exception"],
                                          [kind |-> "exceed"]}}

\* Contexts handed to _generate_final_result: each of the three citing agents
\* succeeded with some list of documents, failed or timed out; the vision
\* agent may also have had no image to read.
SynthesisContexts ==
  {[agents |-> [policy_retriever |-> p, evidence_collector |-> e, vision_ocr |-> v],
    hitl_responses |-> <<>>] :
     p \in {[agent |-> SelfName("policy_retriever"), status |-> "success", policies |-> l] :
              l \in DocLists("snippet")}
            \cup FailureResults("policy_retriever"),
     e \in {[agent |-> SelfName("evidence_collector"), status |-> "success", evidence |-> l] :
              l \in DocLists("snippet")}
            \cup FailureResults("evidence_collector"),
     v \in {[agent |-> SelfName("vision_ocr"), status |-> "success", ocr_results |-> <<>>,
              vision_evidence |-> l] : l \in DocLists("content")}
            \cup SuccessPayloads("vision_ocr")
            \cup FailureResults("vision_ocr")}

\* One _generate_final_result call on context ctx.
Synthesize(ctx) ==
  /\ synthesized = None
  /\ ctx \in SynthesisContexts
  /\ synthesized' = [context |-> ctx, result |-> generate_final_result(ctx)]
  /\ UNCHANGED <<pc, sid, task, context, round, events, sessions, agent_status,
                 pending_hitl_requests, hitl_responses, active_connections, next_id,
                 sent_requests, responses_left, first_accepted, faults_left, returned,
                 final_saved, fault, clients, critic_payloads, attempts, validated,
                 checked_result, validation, reply, query, risk_payloads, outcome,
                 execution_time, invocations>>

\* Stage 6: the finalized/started update, _generate_final_result,
\* save_final_result, the finalized/completed update.
FinalCalls == <<"transport", "store", "transport">>

Finalize(r, f, h) ==
  /\ pc[r] = "finalize"
  /\ f \in FaultPoints(FinalCalls, sid[r])
  /\ faults_left' = faults_left - Cost(None, f)
  /\ h \in HandlerOutcomes(sid[r])
  /\ f = 0 => h = "ok"
  /\ LET final_result == generate_final_result(context[r])
         started == Append(events[r], ProgressUpdate("finalized", "started"))
         saved == f \in {0, 3}
     IN
       /\ sessions' = IF saved THEN save_final_result(sessions, sid[r], final_result)
                       ELSE sessions
       /\ final_saved' = [final_saved EXCEPT ![r] = saved]
       /\ IF f = 0
            THEN /\ pc' = [pc EXCEPT ![r] = "done"]
                 /\ events' = [events EXCEPT ![r] =
                                 Append(started,
                                        [stage |-> "finalized", status |-> "completed",
                                         meta |-> [decision |-> final_result.decision,
                                                   confidence |-> final_result.confidence]])]
                 /\ fault' = fault
            ELSE /\ pc' = [pc EXCEPT ![r] = "aborted"]
                 /\ events' = [events EXCEPT ![r] =
                                 AfterError(IF f = 1 THEN events[r] ELSE started,
                                            FaultText(FinalCalls[f]), h)]
                 /\ fault' = [fault EXCEPT ![r] = FaultText(FinalCalls[f])]
  /\ UNCHANGED <<clients, critic_payloads, synthesized, invocations, execution_time, attempts, validated, checked_result, validation, reply, query, risk_payloads, outcome, sid, task, context, round, agent_status, pending_hitl_requests,
                 hitl_responses, active_connections, next_id, sent_requests, responses_left,
                 first_accepted, returned>>

(* ----------------------------- connections ----------------------------- *)

\* Variant of connect that sends the session's outstanding requests to the
\* new socket.
connect_resending(s) ==
  /\ s \in clients
  /\ s \notin active_connections
  /\ active_connections' = active_connections \cup {s}
  /\ sent_requests' = sent_requests \cup
                        {round[r].request_id : r \in {x \in Runs : sid[x] = s /\ pc[x] = "waiting"}}
  /\ UNCHANGED <<pc, sid, task, context, round, events, sessions, agent_status,
                 pending_hitl_requests, hitl_responses, next_id,
                 responses_left, first_accepted, faults_left, returned, final_saved, fault, clients, critic_payloads, synthesized, invocations, execution_time, attempts, validated, checked_result, validation, reply, query, risk_payloads, outcome>>

\* ConnectionManager.connect, from websocket_endpoint
connect(s) ==
  /\ s \in clients
  /\ s \notin active_connections
  /\ active_connections' = active_connections \cup {s}
  /\ UNCHANGED <<pc, sid, task, context, round, events, sessions, agent_status,
                 pending_hitl_requests, hitl_responses, next_id, sent_requests,
                 responses_left, first_accepted, faults_left, returned, final_saved, fault, clients, critic_payloads, synthesized, invocations, execution_time, attempts, validated, checked_result, validation, reply, query, risk_payloads, outcome>>

\* ConnectionManager.disconnect, on WebSocketDisconnect
disconnect(s) ==
  /\ s \in active_connections
  /\ active_connections' = active_connections \ {s}
  /\ UNCHANGED <<pc, sid, task, context, round, events, sessions, agent_status,
                 pending_hitl_requests, hitl_responses, next_id, sent_requests,
                 responses_left, first_accepted, faults_left, returned, final_saved, fault, clients, critic_payloads, synthesized, invocations, execution_time, attempts, validated, checked_result, validation, reply, query, risk_payloads, outcome>>

(* ---------------------------- specification ---------------------------- *)

Faults == 0..6
Handler == {"ok", "raise"}

Next ==
  \/ \E r \in Runs, s \in SessionIds, q \in PostedQueries : ask_question(r, s, q)
  \/ \E r \in Runs, f \in Faults, R \in SUBSET RetrievalAgents, h \in Handler :
       StartRun(r, f, R, h)
  \/ \E r \in Runs, a \in CollectionSet : \E o \in ExecOutcomes(a) : CollectorFinish(r, a, o)
  \/ \E r \in Runs, f \in Faults, h \in Handler : GatherDone(r, f, h)
  \/ \E r \in Runs, f \in Faults, h \in Handler :
       \E o \in ExecOutcomes("risk_scorer") : RiskFinish(r, o, f, h)
  \/ \E r \in Runs, f \in Faults, h \in Handler :
       \E o \in ExecOutcomes("red_team_critic") : CriticFinish(r, o, f, h)
  \/ \E r \in Runs, f \in Faults, h \in Handler : BeginRound(r, f, h)
  \/ \E c \in SessionIds : \E response \in OperatorResponses(c) :
       websocket_endpoint(c, response)
  \/ \E r \in Runs : WaitReturns(r)
  \/ \E r \in Runs : WaitTimeout(r)
  \/ \E r \in Runs, f \in Faults, h \in Handler : SaveInteraction(r, f, h)
  \/ \E r \in Runs, f \in Faults, h \in Handler : Finalize(r, f, h)
  \/ \E s \in SessionIds : connect(s)
  \/ \E s \in SessionIds : disconnect(s)

Spec == Init /\ [][Next]_vars

SpecHitl == InitHitl /\ [][Next]_vars

SpecTwo == InitTwo /\ [][Next]_vars

SpecFaults == InitFaults /\ [][Next]_vars

SpecAnswered == InitAnswered /\ [][Next]_vars

\* The pre-run screen alone: POST /ask with any query, the tasks it creates
\* are not followed.
NextScreen ==
  \E r \in Runs, s \in SessionIds, q \in Queries : ask_question(r, s, q)

SpecScreen == InitScreen /\ [][NextScreen]_vars

\* The post-run screen alone.
NextValidate == ValidateResult

SpecValidate == InitValidate /\ [][NextValidate]_vars

\* An agent object invoked several times in a row, outside any run.
InitInvoke ==
  InitWith({}, {}, MaxFaultsTwo, MaxResponsesTwo, OneQuestionPayloads,
           SuccessPayloads("risk_scorer"), None)

NextInvoke ==
  \E a \in InvokedAgents : \E o \in ExecOutcomes(a), d \in 1..MaxElapsed : Invoke(a, o, d)

SpecInvoke == InitInvoke /\ [][NextInvoke]_vars

\* _generate_final_result applied to one context, outside any run.
NextCitations == \E ctx \in SynthesisContexts : Synthesize(ctx)

SpecCitations == InitInvoke /\ [][NextCitations]_vars

\* The ways an execute call returns.
Returns(a) == {o \in ExecOutcomes(a) : o.kind = "return"}

\* The steps of a run whose agents all return and whose critic asks for no
\* human input.
NextSynthesis ==
  \/ \E r \in Runs, s \in SessionIds, q \in AcceptedQueries : ask_question(r, s, q)
  \/ \E r \in Runs, f \in Faults, R \in SUBSET RetrievalAgents, h \in Handler :
       StartRun(r, f, R, h)
  \/ \E r \in Runs, a \in CollectionSet : \E o \in Returns(a) : CollectorFinish(r, a, o)
  \/ \E r \in Runs, f \in Faults, h \in Handler : GatherDone(r, f, h)
  \/ \E r \in Runs, f \in Faults, h \in Handler :
       \E o \in Returns("risk_scorer") : RiskFinish(r, o, f, h)
  \/ \E r \in Runs, f \in Faults, h \in Handler :
       \E o \in Returns("red_team_critic") : CriticFinish(r, o, f, h)
  \/ \E r \in Runs, f \in Faults, h \in Handler : Finalize(r, f, h)

SpecSynthesis == InitSynthesis /\ [][NextSynthesis]_vars

(* ------------------------------- claims -------------------------------- *)

\* Positions of a run_workflow task between its creation and its end.
InFlight == {"spawned", "gathering", "risk", "critic", "hitl", "waiting", "saving", "finalize"}

\* Some step of run r.
RunStep(r) ==
  \/ \E f \in Faults, R \in SUBSET RetrievalAgents, h \in Handler : StartRun(r, f, R, h)
  \/ \E a \in CollectionSet : \E o \in ExecOutcomes(a) : CollectorFinish(r, a, o)
  \/ \E f \in Faults, h \in Handler : GatherDone(r, f, h)
  \/ \E f \in Faults, h \in Handler :
       \E o \in ExecOutcomes("risk_scorer") : RiskFinish(r, o, f, h)
  \/ \E f \in Faults, h \in Handler :
       \E o \in ExecOutcomes("red_team_critic") : CriticFinish(r, o, f, h)
  \/ \E f \in Faults, h \in Handler : BeginRound(r, f, h)
  \/ WaitReturns(r)
  \/ WaitTimeout(r)
  \/ \E f \in Faults, h \in Handler : SaveInteraction(r, f, h)
  \/ \E f \in Faults, h \in Handler : Finalize(r, f, h)

LastEvent(r) == events[r][Len(events[r])]

AgentStatuses == {"success", "failed", "timeout"}

\* C1: when risk scoring starts, Context holds exactly the four collection
\* agents' names, each bound to the result of that agent's task (its payload,
\* its failed or timeout result, or a failed result carrying the exception of
\* the retrieval that ran before the agent), and the session store holds the
\* same four results.
C1_FourResultsBeforeRisk ==
  \A r \in Runs :
    pc[r] = "risk" =>
      /\ DOMAIN context[r].agents = CollectionSet
      /\ \A a \in CollectionSet :
           /\ context[r].agents[a] = CollectionResult(a, task[r][a])
           /\ context[r].agents[a].status \in AgentStatuses
           /\ task[r][a].raised => context[r].agents[a].status = "failed"
      /\ sessions[sid[r]] # None
      /\ DOMAIN sessions[sid[r]].agent_outputs = CollectionSet
      /\ \A a \in CollectionSet :
           sessions[sid[r]].agent_outputs[a] = context[r].agents[a]

\* Risk scoring starts after a retrieval raised before its agent was invoked.
C1_Witness ==
  \E r \in Runs :
    /\ pc[r] = "risk"
    /\ outcome[r]["policy_retriever"] = None
    /\ context[r].agents["policy_retriever"].status = "failed"
    /\ context[r].agents["policy_retriever"].error = RetrievalRaised.error
    /\ context[r].agents["code_scanner"].status = "success"

\* C2: the risk scorer is running or has run only when all four collection
\* tasks are done and their results are in Context; and every collection task
\* that is done ended by its own outcome (its retrieval raised, or its own
\* execute call returned, raised or exceeded the timeout), while a task whose
\* execute has not ended is still running, whatever its siblings did.
C2_RiskAfterAllCollectors ==
  \A r \in Runs :
    /\ (pc[r] = "risk" \/ outcome[r]["risk_scorer"] # None) =>
         \A a \in CollectionSet :
           task[r][a].st = "done" /\ a \in DOMAIN context[r].agents
    /\ \A a \in CollectionSet :
         /\ task[r][a].st = "done" =>
              IF task[r][a].raised
                THEN /\ a \in RetrievalAgents
                     /\ outcome[r][a] = None
                     /\ task[r][a].error = RetrievalRaised.error
                ELSE /\ outcome[r][a] # None
                     /\ task[r][a].result = run_with_timeout(a, outcome[r][a]).result
         /\ pc[r] = "gathering" /\ task[r][a].st # "done" =>
              task[r][a].st = "running" /\ outcome[r][a] = None

\* One collection agent has timed out, a sibling is still running.
C2_Witness ==
  \E r \in Runs :
    /\ pc[r] = "gathering"
    /\ task[r]["policy_retriever"].st = "done"
    /\ ~task[r]["policy_retriever"].raised
    /\ task[r]["policy_retriever"].result.status = "timeout"
    /\ task[r]["code_scanner"].st = "running"

\* What run_with_timeout handed back for agent a of run r.
RunnerResult(r, a) ==
  IF a \in CollectionSet THEN task[r][a].result ELSE context[r].agents[a]

\* C3: run_with_timeout never raises to its caller; it returns the agent's
\* payload when execute returns, a result with status failed carrying the
\* fault's message when execute raises, and a result with status timeout when
\* execute exceeds the timeout.
C3_RunnerClassifiesOutcomes ==
  \A r \in Runs, a \in AgentKeys :
    outcome[r][a] # None =>
      LET o == outcome[r][a] IN
        /\ a \in CollectionSet => ~task[r][a].raised
        /\ a \notin CollectionSet => a \in DOMAIN context[r].agents
        /\ o.kind = "return" => RunnerResult(r, a) = o.payload
        /\ o.kind = "raise" =>
             /\ RunnerResult(r, a).status = "failed"
             /\ RunnerResult(r, a).error = FaultMessage(o.exc)
        /\ o.kind = "exceed" => RunnerResult(r, a).status = "timeout"

\* An execute call raised TimeoutError itself and the caller got the result
\* of an expired timeout.
C3_Witness ==
  \E r \in Runs, a \in AgentKeys :
    /\ outcome[r][a] = [kind |-> "raise", exc |-> "TimeoutError"]
    /\ a \in CollectionSet \/ a \in DOMAIN context[r].agents
    /\ RunnerResult(r, a).status = "timeout"
    /\ RunnerResult(r, a).error # FaultMessage("TimeoutError")

\* C4: a run ends early only with the fault of a store or transport call,
\* whatever the six agents' outcomes were; until it ends it always has a next
\* step; and when it ends normally the final result synthesized from its
\* Context is in the store and its last event is finalized/completed.
C4_AgentOutcomesNeverAbort ==
  \A r \in Runs :
    /\ pc[r] \in {"aborted", "crashed"} =>
         fault[r] \in {FaultText("store"), FaultText("transport")}
    /\ pc[r] \in InFlight => ENABLED RunStep(r)
    /\ pc[r] = "done" =>
         /\ fault[r] = "none"
         /\ final_saved[r]
         /\ sessions[sid[r]].final_result = generate_final_result(context[r])
         /\ LastEvent(r).stage = "finalized" /\ LastEvent(r).status = "completed"

\* A run whose risk scorer failed has finished normally.
C4_Witness ==
  \E r \in Runs :
    /\ pc[r] = "done"
    /\ context[r].agents["risk_scorer"].status = "failed"
    /\ sessions[sid[r]].final_result # None

\* C5: a run that a fault ended has, as its last event, the error event
\* carrying that fault's message, and no final result of it is in the store.
C5_FaultEndsInErrorEvent ==
  \A r \in Runs :
    fault[r] # "none" =>
      /\ Len(events[r]) > 0
      /\ LastEvent(r) = ErrorUpdate(fault[r])
      /\ ~final_saved[r]

\* The finalized/completed update raised after save_final_result returned: the
\* run's last event is the error event and its final result is in the store.
C5_Witness ==
  \E r \in Runs :
    /\ pc[r] = "aborted"
    /\ final_saved[r]
    /\ Len(events[r]) > 0
    /\ LastEvent(r) = ErrorUpdate(fault[r])
    /\ sessions[sid[r]].final_result # None

\* C6: whenever no HITL round is in progress, pending_hitl_requests and
\* hitl_responses are empty.
C6_TablesEmptyBetweenRounds ==
  (\A r \in Runs : pc[r] \notin {"waiting", "saving"}) =>
    /\ DOMAIN pending_hitl_requests = {}
    /\ DOMAIN hitl_responses = {}

\* send_hitl_request raised: the run has ended and the round's Event is still
\* registered.
C6_Witness ==
  \E r \in Runs :
    /\ pc[r] = "aborted"
    /\ fault[r] = FaultText("transport")
    /\ round[r].request_id \in DOMAIN pending_hitl_requests

\* Rounds of run r that have exited.
RoundsExited(r) == IF pc[r] \in {"waiting", "saving"} THEN round[r].q - 1 ELSE round[r].q

\* C7: in a run that no fault ended, the session holds one HumanInteraction
\* per exited round, in order: status provided with the returned payload when
\* the round returned a response, status timeout when it returned none (the
\* wait expired, also when a response had arrived in the meantime).
C7_OneInteractionPerRound ==
  \A r \in Runs :
    pc[r] \in {"hitl", "waiting", "saving", "finalize", "done"} =>
      LET recorded == sessions[sid[r]].human_interactions
          asked == AskedQuestions(context[r].agents["red_team_critic"])
      IN
        /\ Len(recorded) = RoundsExited(r)
        /\ Len(recorded) = Len(returned[r])
        /\ \A i \in 1..Len(recorded) :
             /\ recorded[i].prompt = asked[i]
             /\ IF returned[r][i].response = None
                  THEN recorded[i].status = "timeout"
                  ELSE /\ recorded[i].status = "provided"
                       /\ recorded[i].response = returned[r][i].response.payload

\* Two responses were accepted for the one round of a run, which recorded one
\* interaction.
C7_Witness ==
  \E r \in Runs :
    /\ pc[r] = "finalize"
    /\ round[r].q = 1
    /\ Len(sessions[sid[r]].human_interactions) = 1
    /\ returned[r][1].response # None
    /\ returned[r][1].response # first_accepted[returned[r][1].request_id]

\* C8: the response a round returns, and the payload it records, is the first
\* response that was accepted for its request identifier.
C8_FirstResponseWins ==
  \A r \in Runs :
    \A i \in 1..Len(returned[r]) :
      returned[r][i].response # None =>
        /\ returned[r][i].response = first_accepted[returned[r][i].request_id]
        /\ sid[r] \in SessionIds /\ sessions[sid[r]] # None
             /\ Len(sessions[sid[r]].human_interactions) >= i =>
               sessions[sid[r]].human_interactions[i].response =
                 first_accepted[returned[r][i].request_id].payload

\* A round returned and recorded the payload of the second response accepted
\* for its identifier.
C8_Witness ==
  \E r \in Runs :
    /\ Len(returned[r]) > 0
    /\ returned[r][1].response # None
    /\ returned[r][1].response.payload # first_accepted[returned[r][1].request_id].payload
    /\ sessions[sid[r]].human_interactions[1].response = returned[r][1].response.payload

\* C9: a hitl_response message whose request identifier is not in
\* pending_hitl_requests changes neither table, no run's Context, no session
\* of the store and nothing a round has returned.
C9_UnregisteredResponseIsNoOp ==
  [][\A c \in SessionIds :
       \A response \in OperatorResponses(c) :
         (/\ response.request_id \notin DOMAIN pending_hitl_requests
          /\ websocket_endpoint(c, response))
           => UNCHANGED <<pending_hitl_requests, hitl_responses, context, sessions,
                          returned, round>>]_vars

\* A message was received and none was ever accepted, in a behaviour where a
\* round was pending or had exited.
C9_Witness ==
  /\ responses_left = 0
  /\ DOMAIN first_accepted = {}
  /\ sent_requests # {}
  /\ \E r \in Runs : Len(returned[r]) > 0

\* C10: a response that a round returns carries that round's request
\* identifier.
C10_ReturnedResponseMatchesRound ==
  \A r \in Runs :
    \A i \in 1..Len(returned[r]) :
      returned[r][i].response # None =>
        returned[r][i].response.request_id = returned[r][i].request_id

\* A round returned a response that the operator of another session sent,
\* while the other run's round returned none.
C10_Witness ==
  \E r \in Runs, other \in Runs :
    /\ r # other
    /\ sid[r] # sid[other]
    /\ Len(returned[r]) = 1 /\ Len(returned[other]) = 1
    /\ returned[r][1].response # None
    /\ returned[r][1].response.session_id = sid[other]
    /\ returned[other][1].response = None

\* C11: a round whose wait expired returns no payload and records a
\* HumanInteraction with status timeout and empty response text; the run it
\* belongs to is not ended by that: it has a next step until it ends, ends
\* early only with a store or transport fault, and when it ends normally its
\* final result is in the store.
C11_TimeoutRecordedRunContinues ==
  \A r \in Runs :
    /\ pc[r] = "saving" /\ round[r].timed_out =>
         /\ RoundInteraction(round[r]).status = "timeout"
         /\ RoundInteraction(round[r]).response = ""
    /\ \A i \in 1..Len(returned[r]) :
         returned[r][i].response = None =>
           /\ sessions[sid[r]].human_interactions[i].status = "timeout"
           /\ sessions[sid[r]].human_interactions[i].response = ""
    /\ (\E i \in 1..Len(returned[r]) : returned[r][i].response = None) =>
         /\ pc[r] \in {"hitl", "waiting", "saving", "finalize"} => ENABLED RunStep(r)
         /\ pc[r] \notin {"hitl", "waiting", "saving", "finalize"} =>
              \/ pc[r] = "done" /\ final_saved[r] /\ sessions[sid[r]].final_result # None
              \/ pc[r] = "aborted" /\ fault[r] \in {FaultText("store"), FaultText("transport")}

\* No operator sent anything, the only round expired, and the run finished
\* with its final result stored.
C11_Witness ==
  \E r \in Runs :
    /\ pc[r] = "done"
    /\ DOMAIN first_accepted = {}
    /\ Len(returned[r]) = 1
    /\ returned[r][1].response = None
    /\ sessions[sid[r]].human_interactions[1] = HumanInteraction("q1", "", "timeout")
    /\ sessions[sid[r]].final_result # None

\* The event loop runs every task that can step and fires every timer: each
\* run that can take a step eventually takes one.
SpecLive == InitHitl /\ [][Next]_vars /\ \A r \in Runs : WF_vars(RunStep(r))

\* C12: dropping a session's connection changes no run's position, no round
\* and neither HITL table; a waiting round whose request has no buffered
\* response leaves the wait only by timeout; and a run that is waiting while
\* its session has no connection eventually finishes (or is ended by a store
\* or transport fault).
C12_DroppedConnectionRoundEnds ==
  /\ [][\A s \in SessionIds :
          disconnect(s) =>
            UNCHANGED <<pc, round, pending_hitl_requests, hitl_responses, context>>]_vars
  /\ [][\A r \in Runs :
          (/\ pc[r] = "waiting"
           /\ pc'[r] # "waiting"
           /\ ~pending_hitl_requests[round[r].request_id])
            => pc'[r] = "saving" /\ round'[r].timed_out]_vars
  /\ \A r \in Runs :
       (pc[r] = "waiting" /\ sid[r] \notin active_connections)
         ~> (pc[r] = "done" \/ fault[r] \in {FaultText("store"), FaultText("transport")})

\* The request reached the operator's socket, and the connection was dropped
\* while the round waits.
C12_Witness ==
  \E r \in Runs :
    /\ pc[r] = "waiting"
    /\ round[r].request_id \in sent_requests
    /\ sid[r] \notin active_connections
    /\ ~pending_hitl_requests[round[r].request_id]

\* C13: a run performs HITL rounds only if its critic result has needs_hitl
\* set; it asks the critic's follow-up questions in their order, never more
\* than the first two, and by the time it finalizes it has performed exactly
\* min(2, number of questions) rounds; without the flag (also when the critic
\* failed or timed out) no request identifier is issued, nothing is sent to
\* an operator and no HumanInteraction is recorded.
C13_RoundsFollowCriticFlag ==
  /\ (\A r \in Runs :
         ~Get(Get(context[r].agents, "red_team_critic", EmptyDict), "needs_hitl", FALSE)) =>
       /\ next_id = 1
       /\ sent_requests = {}
       /\ DOMAIN pending_hitl_requests = {}
  /\ \A r \in Runs :
    LET critic_result == Get(context[r].agents, "red_team_critic", EmptyDict)
        flag == Get(critic_result, "needs_hitl", FALSE)
        questions == Get(critic_result, "follow_up_questions", <<>>)
        rounds == IF Len(questions) < 2 THEN Len(questions) ELSE 2
        recorded == IF sid[r] \in SessionIds /\ sessions[sid[r]] # None
                      THEN sessions[sid[r]].human_interactions ELSE <<>>
    IN
      /\ round[r].q > 0 => flag
      /\ round[r].q <= rounds
      /\ pc[r] \in {"finalize", "done"} => round[r].q = (IF flag THEN rounds ELSE 0)
      /\ pc[r] \in {"waiting", "saving"} => round[r].prompt = questions[round[r].q]
      /\ Len(recorded) <= round[r].q
      /\ \A i \in 1..Len(recorded) : recorded[i].prompt = questions[i]
      /\ ~flag =>
           /\ pc[r] \notin {"hitl", "waiting", "saving"}
           /\ round[r] = NoRound
           /\ recorded = <<>>

\* The critic asked three questions with the flag set, and the run finished
\* after two rounds, on the first two questions.
C13_Witness ==
  \E r \in Runs :
    /\ pc[r] = "done"
    /\ Len(Get(context[r].agents["red_team_critic"], "follow_up_questions", <<>>)) = 3
    /\ round[r].q = 2
    /\ Len(sessions[sid[r]].human_interactions) = 2
    /\ sessions[sid[r]].human_interactions[1].prompt = "q1"
    /\ sessions[sid[r]].human_interactions[2].prompt = "q2"

\* C14: on the 0.01 grid of risk_score and confidence in [0,1], the stored
\* final result is compliant iff risk_score < 0.3 and confidence > 0.8;
\* otherwise insufficient_evidence iff risk_score > 0.7 or confidence < 0.6;
\* otherwise non_compliant; (0.29, 0.81) gives compliant, (0.71, 0.9)
\* insufficient_evidence and (0.5, 0.7) non_compliant.
C14_DecisionRule ==
  \A r \in Runs :
    final_saved[r] =>
      LET risk_data == context[r].agents["risk_scorer"]
          x == risk_data.risk_score
          c == risk_data.confidence
          decision == sessions[sid[r]].final_result.decision
          low == x < 30 /\ c > 80
          weak == x > 70 \/ c < 60
      IN
        /\ decision \in {"compliant", "insufficient_evidence", "non_compliant"}
        /\ decision = "compliant" <=> low
        /\ decision = "insufficient_evidence" <=> (~low /\ weak)
        /\ decision = "non_compliant" <=> (~low /\ ~weak)
        /\ (x = 29 /\ c = 81) => decision = "compliant"
        /\ (x = 71 /\ c = 90) => decision = "insufficient_evidence"
        /\ (x = 50 /\ c = 70) => decision = "non_compliant"
        /\ sessions[sid[r]].final_result.risk_score = x
        /\ sessions[sid[r]].final_result.confidence = c

C14_Witness ==
  \E r \in Runs :
    /\ pc[r] = "done"
    /\ final_saved[r]
    /\ context[r].agents["risk_scorer"].risk_score = 29
    /\ context[r].agents["risk_scorer"].confidence = 81
    /\ sessions[sid[r]].final_result.decision = "compliant"

\* C15: every final result a run persists has a non-empty citations list
\* unless its decision is insufficient_evidence, and a rationale of at least
\* 50 characters.
C15_PersistedResultValid ==
  \A r \in Runs :
    (final_saved[r] /\ sessions[sid[r]] # None) =>
      LET final_result == sessions[sid[r]].final_result IN
        /\ final_result.decision # "insufficient_evidence" => final_result.citations # <<>>
        /\ RationaleLength(final_result.rationale) >= 50

\* Both citing agents ended without a payload and the run persisted a
\* non_compliant result without citations.
C15_Witness ==
  \E r \in Runs :
    /\ pc[r] = "done"
    /\ final_saved[r]
    /\ context[r].agents["policy_retriever"].status \in {"failed", "timeout"}
    /\ context[r].agents["evidence_collector"].status \in {"failed", "timeout"}
    /\ sessions[sid[r]].final_result.decision = "non_compliant"
    /\ sessions[sid[r]].final_result.citations = <<>>

\* C16: a posted query that matches an unsafe pattern or is off-domain is
\* answered with status refused and the canonical refusal result
\* (insufficient_evidence, confidence 0, risk 0), and no pipeline starts for
\* it: no session is created, no agent is invoked, no event is sent.
C16_StoppedQueryIsRefused ==
  \A r \in Runs :
    (query[r] # None /\ Stopped(query[r])) =>
      /\ pc[r] = "refused"
      /\ reply[r].status = "refused"
      /\ reply[r].result.decision = "insufficient_evidence"
      /\ reply[r].result.confidence = 0
      /\ reply[r].result.risk_score = 0
      /\ sessions[sid[r]] = None
      /\ events[r] = <<>>
      /\ \A a \in AgentKeys : outcome[r][a] = None /\ agent_status[a] = "idle"

\* A query matching the two-group pattern was posted: the screen raised and
\* the request was answered 500, without a refusal.
C16_Witness ==
  \E r \in Runs :
    /\ query[r] # None
    /\ query[r].unsafe_matches = <<"tuple">>
    /\ pc[r] = "errored"
    /\ reply[r] = [status_code |-> 500]
    /\ sessions[sid[r]] = None

ViolatedRules(res) ==
  {m \in {"Inconsistent: decision is 'compliant' but risk_score is high",
          "Inconsistent: decision is 'non_compliant' but risk_score is low",
          "Low confidence should result in 'insufficient_evidence' decision",
          "Compliant/non-compliant decisions must include citations",
          "Rationale is too brief (minimum 50 characters)"} :
     \/ /\ m = "Inconsistent: decision is 'compliant' but risk_score is high"
        /\ res.decision = "compliant" /\ res.risk_score > 70
     \/ /\ m = "Inconsistent: decision is 'non_compliant' but risk_score is low"
        /\ res.decision = "non_compliant" /\ res.risk_score < 30
     \/ /\ m = "Low confidence should result in 'insufficient_evidence' decision"
        /\ res.confidence < 50 /\ res.decision # "insufficient_evidence"
     \/ /\ m = "Compliant/non-compliant decisions must include citations"
        /\ res.citations = <<>> /\ res.decision # "insufficient_evidence"
     \/ /\ m = "Rationale is too brief (minimum 50 characters)"
        /\ Len(res.rationale) < 50}

\* C18: a result with decision compliant and risk_score 0.75 is flagged
\* invalid with the inconsistency error; for a schema-valid result the error
\* list holds exactly one error per violated rule among the five, and
\* is_valid is true iff the list is empty.
C18_ValidatorCollectsAllViolations ==
  validated # None =>
    /\ (checked_result.decision = "compliant" /\ checked_result.risk_score = 75) =>
         /\ ~validated.is_valid
         /\ \E i \in 1..Len(validated.errors) :
              validated.errors[i] =
                "Inconsistent: decision is 'compliant' but risk_score is high"
    /\ ~SchemaInvalid(checked_result) =>
         /\ {validated.errors[i] : i \in 1..Len(validated.errors)} = ViolatedRules(checked_result)
         /\ Len(validated.errors) = Cardinality(ViolatedRules(checked_result))
    /\ validated.is_valid <=> validated.errors = <<>>

\* A compliant result with risk_score 0.75, confidence 0.49, no citation and
\* an empty rationale was validated: four errors, not valid.
C18_Witness ==
  /\ validated # None
  /\ checked_result.decision = "compliant"
  /\ checked_result.risk_score = 75
  /\ checked_result.confidence = 49
  /\ checked_result.citations = <<>>
  /\ Len(checked_result.rationale) = 0
  /\ Len(validated.errors) = 4
  /\ ~validated.is_valid

\* C19: an invocation whose execute raised a fault is reported failed only
\* after the runner has called execute 3 times; with fewer calls made, the
\* runner is still to re-invoke it.
C19_FailedOnlyAfterThreeAttempts ==
  \A r \in Runs : \A a \in AgentKeys :
    (outcome[r][a] # None /\ RunnerResult(r, a).status = "failed") =>
      attempts[r][a] = StopAfterAttempt

\* The policy retriever's execute raised on its first call; it was called
\* once and the runner returned status failed.
C19_Witness ==
  \E r \in Runs :
    /\ outcome[r]["policy_retriever"] = [kind |-> "raise", exc |-> "Exception"]
    /\ attempts[r]["policy_retriever"] = 1
    /\ task[r]["policy_retriever"].st = "done"
    /\ ~task[r]["policy_retriever"].raised
    /\ task[r]["policy_retriever"].result.status = "failed"
    /\ agent_status["policy_retriever"] = "failed"

\* Run r's run_with_timeout call on agent a has started and not returned.
InvocationInFlight(r, a) ==
  \/ a \in CollectionSet /\ pc[r] = "gathering" /\ task[r][a].st = "running"
  \/ a = "risk_scorer" /\ pc[r] = "risk"
  \/ a = "red_team_critic" /\ pc[r] = "critic"

\* C20: an agent's status is idle until its first invocation, running
\* whenever an invocation of it is in flight, in one session or in several
\* at once, and completed, timeout or failed once an invocation has finished
\* and none is in flight.
C20_StatusFollowsInvocations ==
  \A a \in AgentKeys :
    LET in_flight == \E r \in Runs : InvocationInFlight(r, a)
        finished == \E r \in Runs : outcome[r][a] # None
    IN
      /\ in_flight => agent_status[a] = "running"
      /\ (~in_flight /\ finished) => agent_status[a] \in {"completed", "timeout", "failed"}
      /\ (~in_flight /\ ~finished) => agent_status[a] = "idle"

\* Two sessions invoked the policy retriever at once; one call returned and
\* the shared agent object says completed while the other call is in flight.
C20_Witness ==
  \E r, x \in Runs :
    /\ r # x
    /\ InvocationInFlight(r, "policy_retriever")
    /\ outcome[x]["policy_retriever"] # None
    /\ outcome[x]["policy_retriever"].kind = "return"
    /\ agent_status["policy_retriever"] = "completed"

\* The (stage, status) pairs of a sequence of progress updates.
Stages(evs) == [i \in 1..Len(evs) |-> <<evs[i].stage, evs[i].status>>]

IsPrefix(p, q) == Len(p) <= Len(q) /\ \A i \in 1..Len(p) : p[i] = q[i]

\* The fixed stage order of a run, with awaiting_human when its critic asked
\* for human input.
StageOrder(r) ==
  <<(<<"planner_started", "started">>), (<<"parallel_collection", "started">>),
    (<<"rag_done", "completed">>), (<<"risk_scoring", "started">>),
    (<<"critic_flags", "started">>)>>
    \o (IF Get(Get(context[r].agents, "red_team_critic", EmptyDict), "needs_hitl", FALSE)
          THEN <<(<<"awaiting_human", "started">>)>> ELSE <<>>)
    \o <<(<<"finalized", "started">>), (<<"finalized", "completed">>)>>

\* C21: the progress events of a run follow the fixed stage order, with
\* awaiting_human only when HITL is needed; a run that finished emitted the
\* whole sequence, and a failing run emitted a prefix of it followed by one
\* error event.
C21_EventsInStageOrder ==
  \A r \in Runs :
    LET evs == Stages(events[r]) IN
      IF pc[r] \in {"aborted", "crashed"}
        THEN /\ Len(evs) >= 1
             /\ evs[Len(evs)] = <<"error", "failed">>
             /\ IsPrefix(SubSeq(evs, 1, Len(evs) - 1), StageOrder(r))
        ELSE /\ IsPrefix(evs, StageOrder(r))
             /\ pc[r] = "done" => evs = StageOrder(r)

\* create_session raised: the run ended with no event at all.
C21_Witness ==
  \E r \in Runs :
    /\ pc[r] = "crashed"
    /\ fault[r] = FaultText("store")
    /\ events[r] = <<>>

\* C22: the HumanInteraction recorded for a round that a response resolved
\* has status provided when the response kind is text or upload and status
\* approved or denied when the kind is approval, and the round returns the
\* response's payload.
C22_StatusFollowsResponseKind ==
  \A r \in Runs :
    pc[r] \in {"hitl", "waiting", "saving", "finalize", "done"} =>
      LET recorded == sessions[sid[r]].human_interactions IN
        \A i \in 1..Len(returned[r]) :
          returned[r][i].response # None =>
            LET response == returned[r][i].response IN
              /\ i <= Len(recorded)
              /\ recorded[i].response = response.payload
              /\ response.response_type \in {"text", "upload"} =>
                   recorded[i].status = "provided"
              /\ response.response_type = "approval" =>
                   recorded[i].status \in {"approved", "denied"}

\* A round resolved by an approval response was recorded with status
\* provided.
C22_Witness ==
  \E r \in Runs :
    /\ Len(returned[r]) >= 1
    /\ returned[r][1].response # None
    /\ returned[r][1].response.response_type = "approval"
    /\ Len(sessions[sid[r]].human_interactions) >= 1
    /\ sessions[sid[r]].human_interactions[1].status = "provided"
    /\ sessions[sid[r]].human_interactions[1].response = returned[r][1].response.payload

\* C23: the stored final result's human_interactions has one entry per HITL
\* round of the run, with status timeout for a round that timed out: it is
\* as long as the session's list of recorded HumanInteractions and agrees
\* with it on prompt and status.
C23_FinalResultListsEveryRound ==
  \A r \in Runs :
    (pc[r] = "done" /\ final_saved[r]) =>
      LET recorded == sessions[sid[r]].human_interactions
          listed == sessions[sid[r]].final_result.human_interactions
      IN
        /\ Len(listed) = round[r].q
        /\ Len(listed) = Len(recorded)
        /\ \A i \in 1..Len(listed) :
             /\ listed[i].prompt = recorded[i].prompt
             /\ listed[i].status = recorded[i].status

\* A run whose only round timed out: the session holds the timeout record
\* and the final result lists no interaction.
C23_Witness ==
  \E r \in Runs :
    /\ pc[r] = "done"
    /\ final_saved[r]
    /\ round[r].q = 1
    /\ Len(sessions[sid[r]].human_interactions) = 1
    /\ sessions[sid[r]].human_interactions[1].status = "timeout"
    /\ sessions[sid[r]].final_result.human_interactions = <<>>

\* C24: when the critic sets needs_hitl with 2 follow-up questions and both
\* rounds returned a response, the stored final result has exactly 2
\* HumanInteraction entries, each with status provided.
C24_TwoAnsweredRoundsListed ==
  \A r \in Runs :
    LET critic_result == Get(context[r].agents, "red_team_critic", EmptyDict) IN
      (/\ final_saved[r]
       /\ Get(critic_result, "needs_hitl", FALSE)
       /\ Len(Get(critic_result, "follow_up_questions", <<>>)) = 2
       /\ Len(returned[r]) = 2
       /\ \A i \in 1..2 : returned[r][i].response # None) =>
        LET listed == sessions[sid[r]].final_result.human_interactions IN
          /\ Len(listed) = 2
          /\ \A i \in 1..2 :
               /\ listed[i].status = "provided"
               /\ listed[i].response = returned[r][i].response.payload

C24_Witness ==
  \E r \in Runs :
    /\ pc[r] = "done"
    /\ final_saved[r]
    /\ Len(context[r].agents["red_team_critic"].follow_up_questions) = 2
    /\ Len(returned[r]) = 2
    /\ returned[r][1].response # None
    /\ returned[r][2].response # None
    /\ Len(sessions[sid[r]].final_result.human_interactions) = 2
    /\ sessions[sid[r]].final_result.human_interactions[2].status = "provided"

\* C25: for an accepted query whose 4 collection agents all succeed and
\* whose risk score is 0.2, the stored final result has decision compliant,
\* a non-empty citations list and no HumanInteraction entry.
C25_ScenarioACompliant ==
  \A r \in Runs :
    (/\ final_saved[r]
     /\ \A a \in CollectionSet : context[r].agents[a].status = "success"
     /\ context[r].agents["risk_scorer"].status = "success"
     /\ context[r].agents["risk_scorer"].risk_score = 20) =>
      LET final_result == sessions[sid[r]].final_result IN
        /\ final_result.decision = "compliant"
        /\ final_result.citations # <<>>
        /\ final_result.human_interactions = <<>>

\* Scenario A with the confidence the shipped risk scorer reports: the
\* stored decision is non_compliant.
C25_Witness ==
  \E r \in Runs :
    /\ pc[r] = "done"
    /\ final_saved[r]
    /\ \A a \in CollectionSet : context[r].agents[a].status = "success"
    /\ context[r].agents["risk_scorer"].risk_score = 20
    /\ context[r].agents["risk_scorer"].confidence = ScorerConfidence
    /\ sessions[sid[r]].final_result.decision = "non_compliant"
    /\ sessions[sid[r]].final_result.citations # <<>>
    /\ sessions[sid[r]].final_result.human_interactions = <<>>

\* C26: at most one run is active per session identifier at any time, also
\* when POST /ask is called again with the identifier of a run in flight.
C26_OneActiveRunPerSession ==
  \A r, x \in Runs :
    (r # x /\ pc[r] \in InFlight /\ pc[x] \in InFlight) => sid[r] # sid[x]

\* Two runs of the same session identifier are in their collection stage
\* at once.
C26_Witness ==
  \E r, x \in Runs :
    /\ r # x
    /\ sid[r] = sid[x]
    /\ pc[r] = "gathering"
    /\ pc[x] = "gathering"

\* C27: once a final result is attached to a session, no later step replaces
\* or removes it; only human-interaction records may still be appended.
C27_FinalResultImmutable ==
  [][\A s \in SessionIds :
       (sessions[s] # None /\ sessions[s].final_result # None) =>
         /\ sessions'[s] # None
         /\ sessions'[s].final_result = sessions[s].final_result
         /\ sessions'[s].agent_outputs = sessions[s].agent_outputs
         /\ IsPrefix(sessions[s].human_interactions, sessions'[s].human_interactions)]_vars

\* A run stored its final result, and a later POST /ask with the same
\* session identifier created the session anew: the result is gone.
C27_Witness ==
  \E r, x \in Runs :
    /\ r # x
    /\ sid[r] = sid[x]
    /\ pc[r] = "done"
    /\ final_saved[r]
    /\ pc[x] = "gathering"
    /\ sessions[sid[r]].final_result = None

\* The event loop resumes every task that can run: an agent invocation ends
\* by its timeout at the latest, a HITL wait by its 60 s budget, and each
\* awaited store or transport call returns or raises.
SpecTermination == Init /\ [][Next]_vars /\ \A r \in Runs : WF_vars(RunStep(r))

C29_OneOutstandingRequestPerRun ==
  /\ [](/\ \A id \in DOMAIN pending_hitl_requests :
            /\ id < next_id
            /\ \E r \in Runs :
                 /\ round[r].request_id = id
                 /\ pc[r] \in {"waiting", "saving", "aborted"}
        /\ \A r \in Runs :
             pc[r] \in {"hitl", "finalize", "done"} =>
               /\ round[r].request_id \notin DOMAIN pending_hitl_requests
               /\ round[r].request_id \notin DOMAIN hitl_responses
        /\ \A r, x \in Runs :
             (r # x /\ round[r] # NoRound /\ round[x] # NoRound) =>
               round[r].request_id # round[x].request_id)
  /\ [][/\ next_id' >= next_id
        /\ \A id \in DOMAIN pending_hitl_requests' \ DOMAIN pending_hitl_requests :
             /\ id = next_id
             /\ next_id' = next_id + 1
             /\ \E r \in Runs :
                  /\ pc[r] = "hitl"
                  /\ round'[r].request_id = id
                  /\ round'[r].q = round[r].q + 1
                  /\ round[r].request_id \notin DOMAIN pending_hitl_requests]_vars

\* The second round of a run is waiting: its request is the only registered
\* wait, under an identifier other than the first round's.
C29_Witness ==
  \E r \in Runs :
    /\ pc[r] = "waiting"
    /\ round[r].q = 2
    /\ Len(returned[r]) = 1
    /\ returned[r][1].request_id # round[r].request_id
    /\ DOMAIN pending_hitl_requests = {round[r].request_id}

\* C30: a step that ends the wait of a run's round (its response is read, or
\* the wait expires) or cleans the round up leaves every other request's
\* registered wait and buffered response as they were; and a round whose
\* wait returns reads the response buffered under its own identifier.
C30_OtherSessionsRoundUntouched ==
  [][\A r \in Runs :
       (pc[r] \in {"waiting", "saving"} /\ pc'[r] # pc[r]) =>
         /\ \A id \in DOMAIN pending_hitl_requests \ {round[r].request_id} :
              /\ id \in DOMAIN pending_hitl_requests'
              /\ pending_hitl_requests'[id] = pending_hitl_requests[id]
              /\ Get(hitl_responses', id, None) = Get(hitl_responses, id, None)
         /\ \A x \in Runs \ {r} : round'[x] = round[x] /\ returned'[x] = returned[x]
         /\ (pc[r] = "waiting" /\ ~round'[r].timed_out) =>
              /\ round[r].request_id \in DOMAIN hitl_responses
              /\ round'[r].response = hitl_responses[round[r].request_id]
              /\ round'[r].response.request_id = round[r].request_id]_vars

\* The round of one session timed out and was cleaned up while the round of
\* another session is waiting with its response buffered.
C30_Witness ==
  \E r, x \in Runs :
    /\ sid[r] # sid[x]
    /\ pc[r] \in {"finalize", "done"}
    /\ Len(returned[r]) = 1
    /\ returned[r][1].response = None
    /\ pc[x] = "waiting"
    /\ round[x].request_id \in DOMAIN hitl_responses
    /\ pending_hitl_requests[round[x].request_id]
    /\ hitl_responses[round[x].request_id].request_id = round[x].request_id

\* C31: the result of every run_with_timeout call carries an execution
\* duration, and it is the elapsed time of that call, whether the call
\* succeeded, failed or timed out.
C31_DurationIsOfThisInvocation ==
  \A i \in 1..Len(invocations) :
    /\ "execution_time" \in DOMAIN invocations[i].result
    /\ invocations[i].result.execution_time = invocations[i].elapsed

\* Three calls on one agent object: the first success carries the initial
\* 0, the second success carries the elapsed time of the first call, not its
\* own, and the timeout result carries no duration.
C31_Witness ==
  /\ Len(invocations) = 3
  /\ invocations[1].result.status = "success"
  /\ invocations[1].result.execution_time = 0
  /\ invocations[2].result.status = "success"
  /\ invocations[2].result.execution_time = invocations[1].elapsed
  /\ invocations[2].result.execution_time # invocations[2].elapsed
  /\ invocations[3].result.status = "timeout"
  /\ "execution_time" \notin DOMAIN invocations[3].result

\* The list under key of agent a's entry of the synthesized context, empty
\* when the entry has no such key.
Listed(a, key) == Get(synthesized.context.agents[a], key, <<>>)

\* C32: the citations of a final result are the policy retriever's policies,
\* then the evidence collector's evidence, then the vision agent's vision
\* evidence, each document in its place with its doc id, chunk id and text,
\* repetitions kept, so there are as many citations as documents; a failed
\* or timed-out agent contributes none.
C32_CitationsConcatenateInOrder ==
  synthesized # None =>
    LET policies == Listed("policy_retriever", "policies")
        evidence == Listed("evidence_collector", "evidence")
        vision == Listed("vision_ocr", "vision_evidence")
        citations == synthesized.result.citations
        np == Len(policies)
        ne == Len(evidence)
    IN
      /\ Len(citations) = np + ne + Len(vision)
      /\ \A i \in 1..Len(citations) :
           LET d == IF i <= np THEN policies[i]
                    ELSE IF i <= np + ne THEN evidence[i - np]
                    ELSE vision[i - np - ne]
           IN
             /\ citations[i].doc_id = d.doc_id
             /\ citations[i].chunk_id = d.chunk_id
             /\ citations[i].snippet = IF i <= np + ne THEN d.snippet ELSE d.content
             /\ DOMAIN citations[i] = {"doc_id", "chunk_id", "snippet"}
      /\ \A a \in {"policy_retriever", "evidence_collector", "vision_ocr"} :
           synthesized.context.agents[a].status \in {"failed", "timeout"} =>
             /\ Listed(a, "policies") = <<>>
             /\ Listed(a, "evidence") = <<>>
             /\ Listed(a, "vision_evidence") = <<>>

\* The policy retriever returned the same document twice, the evidence
\* collector timed out and the vision agent returned one document: three
\* citations, the repeated one twice.
C32_Witness ==
  /\ synthesized # None
  /\ Len(Listed("policy_retriever", "policies")) = 2
  /\ Listed("policy_retriever", "policies")[1] = Listed("policy_retriever", "policies")[2]
  /\ synthesized.context.agents["evidence_collector"].status = "timeout"
  /\ Len(Listed("vision_ocr", "vision_evidence")) = 1
  /\ Len(synthesized.result.citations) = 3
  /\ synthesized.result.citations[1] = synthesized.result.citations[2]

\* C33: an entry of a run's Context, once written under an agent's name,
\* keeps its value for the rest of the run; a step changes the Context of one
\* run at most, and it is a step of that run (the end of the collection
\* stage, of the risk scorer's or the critic's call, or of a HITL round); and
\* the final result a run stores is computed from its own Context.
C33_ContextAppendOnly ==
  [][\A r \in Runs :
       /\ \A a \in DOMAIN context[r].agents :
            /\ a \in DOMAIN context'[r].agents
            /\ context'[r].agents[a] = context[r].agents[a]
       /\ context'[r] # context[r] =>
            /\ pc[r] \in {"gathering", "risk", "critic", "saving"}
            /\ pc'[r] # pc[r]
            /\ \A x \in Runs \ {r} : context'[x] = context[x] /\ pc'[x] = pc[x]
       /\ (pc[r] = "finalize" /\ pc'[r] = "done") =>
            sessions'[sid[r]].final_result = generate_final_result(context[r])]_vars

\* One run has written all six entries and recorded a HITL response while
\* the run of another session, at its risk stage, holds its four collection
\* results and nothing else.
C33_Witness ==
  \E r, x \in Runs :
    /\ sid[r] # sid[x]
    /\ DOMAIN context[r].agents = AgentKeys
    /\ Len(context[r].hitl_responses) = 1
    /\ pc[x] = "risk"
    /\ DOMAIN context[x].agents = CollectionSet
    /\ context[x].hitl_responses = <<>>

\* C34: whatever the order in which the four collection tasks end, the end
\* of one task changes no other task, and the result written to Context and
\* to the store under a collection agent's name is the result of that
\* agent's own invocation in this run: what run_with_timeout made of the way
\* its execute call ended, or the failed result of the retrieval that kept
\* the agent from being invoked.
C34_ResultsKeyedByOwnAgent ==
  /\ [][\A r \in Runs : \A a \in CollectionSet :
          (pc[r] = "gathering" /\ task'[r][a] # task[r][a]) =>
            \A b \in CollectionSet \ {a} : task'[r][b] = task[r][b]]_vars
  /\ [](\A r \in Runs : \A a \in CollectionSet :
          a \in DOMAIN context[r].agents =>
            LET own == IF outcome[r][a] # None
                         THEN run_with_timeout(a, outcome[r][a]).result
                         ELSE [agent |-> a, status |-> "failed",
                               error |-> RetrievalRaised.error]
            IN
              /\ context[r].agents[a] = own
              /\ (pc[r] \in {"risk", "critic", "hitl", "waiting", "saving", "finalize"}
                    => sessions[sid[r]].agent_outputs[a] = own)
              /\ outcome[r][a] # None => context[r].agents[a].agent = SelfName(a))

\* The four results are in Context and in the store, the vision agent's
\* being a timeout result among three successes.
C34_Witness ==
  \E r \in Runs :
    /\ pc[r] = "risk"
    /\ DOMAIN context[r].agents = CollectionSet
    /\ outcome[r]["vision_ocr"] = [kind |-> "exceed"]
    /\ context[r].agents["vision_ocr"].status = "timeout"
    /\ sessions[sid[r]].agent_outputs["vision_ocr"].status = "timeout"
    /\ \A a \in CollectionSet \ {"vision_ocr"} :
         /\ context[r].agents[a].status = "success"
         /\ context[r].agents[a].agent = SelfName(a)

\* C35: a HITL round returns only a response whose session identifier is
\* the session of the round's run, and only a response stored under the
\* round's request identifier by a message from that session is accepted.
C35_ResponseFromOwnSessionOnly ==
  /\ \A r \in Runs :
       \A i \in 1..Len(returned[r]) :
         returned[r][i].response # None => returned[r][i].response.session_id = sid[r]
  /\ \A r \in Runs :
       (pc[r] = "waiting" /\ round[r].request_id \in DOMAIN hitl_responses) =>
         hitl_responses[round[r].request_id].session_id = sid[r]

\* The round of one session was resolved by a message that arrived on the
\* connection of another session and carries that session's identifier; the
\* store records the round as provided.
C35_Witness ==
  \E r \in Runs :
    /\ Len(returned[r]) = 1
    /\ returned[r][1].response # None
    /\ returned[r][1].response.request_id = returned[r][1].request_id
    /\ returned[r][1].response.session_id # sid[r]
    /\ returned[r][1].response.session_id \in clients
    /\ pc[r] \in {"finalize", "done"}
    /\ sessions[sid[r]].human_interactions[1].status = "provided"
    /\ Len(context[r].hitl_responses) = 1

\* C36: a HITL request reaches an operator only in the step that issues it,
\* and only if the session has a connection then; a request issued without
\* one is never answered, whoever connects later: its wait is left only by
\* the timeout and the round returns nothing.
C36_UndeliveredRequestTimesOut ==
  /\ [][/\ sent_requests \subseteq sent_requests'
        /\ \A id \in sent_requests' \ sent_requests :
             \E r \in Runs :
               /\ pc[r] = "hitl" /\ pc'[r] = "waiting"
               /\ round'[r].request_id = id
               /\ sid[r] \in active_connections
        /\ \A r \in Runs :
             (/\ pc[r] = "waiting"
              /\ round[r].request_id \notin sent_requests
              /\ pc'[r] # "waiting")
               => pc'[r] = "saving" /\ round'[r].timed_out]_vars
  /\ [](\A r \in Runs :
          /\ (pc[r] = "waiting" /\ round[r].request_id \notin sent_requests) =>
               /\ ~pending_hitl_requests[round[r].request_id]
               /\ round[r].request_id \notin DOMAIN hitl_responses
          /\ \A i \in 1..Len(returned[r]) :
               returned[r][i].request_id \notin sent_requests =>
                 returned[r][i].response = None)

\* A round was begun while its session had no connection; the client has
\* connected since and the operator has sent a message, yet the round still
\* waits with nothing buffered for it.
C36_Witness ==
  \E r \in Runs :
    /\ pc[r] = "waiting"
    /\ round[r].request_id \notin sent_requests
    /\ sid[r] \in active_connections
    /\ responses_left < MaxResponsesHitl
    /\ ~pending_hitl_requests[round[r].request_id]

\* The errors validate_result_schema reports for the final result stored for
\* run r, its rationale taken as the string it is.
ScreenErrors(r) ==
  LET final_result == sessions[sid[r]].final_result
      errors == validate_result_schema(
                  [final_result EXCEPT !.rationale = Text(RationaleLength(@))]).errors
  IN {errors[i] : i \in 1..Len(errors)}

\* C37: for every risk_score and confidence of the 0.01 grid in [0,1], the
\* final result a run stores breaks none of the screen's three
\* decision-consistency rules: compliant with risk_score > 0.7,
\* non_compliant with risk_score < 0.3, confidence < 0.5 with a decision
\* other than insufficient_evidence.
C37_DecisionPassesScreen ==
  \A r \in Runs :
    final_saved[r] =>
      ScreenErrors(r) \cap
        {"Inconsistent: decision is 'compliant' but risk_score is high",
         "Inconsistent: decision is 'non_compliant' but risk_score is low",
         "Low confidence should result in 'insufficient_evidence' decision"} = {}

\* risk_score 0.2 with confidence 0.7: the stored decision is non_compliant,
\* which the screen calls inconsistent with the low risk_score.
C37_Witness ==
  \E r \in Runs :
    /\ pc[r] = "done"
    /\ final_saved[r]
    /\ sessions[sid[r]].final_result.risk_score = 20
    /\ sessions[sid[r]].final_result.confidence = 70
    /\ sessions[sid[r]].final_result.decision = "non_compliant"
    /\ "Inconsistent: decision is 'non_compliant' but risk_score is low" \in ScreenErrors(r)

\* C38: every request identifier with a buffered response in hitl_responses
\* has a registered wait in pending_hitl_requests, whose Event is set.
C38_BufferedResponseHasWait ==
  \A id \in DOMAIN hitl_responses :
    /\ id \in DOMAIN pending_hitl_requests
    /\ pending_hitl_requests[id]
    /\ hitl_responses[id].request_id = id

\* A response is buffered for the second round of a run, after the first
\* round's entries were removed and a message for an unknown request was
\* dropped.
C38_Witness ==
  \E r \in Runs :
    /\ pc[r] = "waiting"
    /\ round[r].q = 2
    /\ DOMAIN hitl_responses = {round[r].request_id}
    /\ DOMAIN pending_hitl_requests = {round[r].request_id}
    /\ responses_left = 0

\* C39: when the risk scorer's call failed or timed out, its result carries
\* neither risk_score nor confidence, and the final result the run stores has
\* risk_score 0.5, confidence 0.5 and decision insufficient_evidence.
C39_FailedScorerGivesInsufficientEvidence ==
  \A r \in Runs :
    ("risk_scorer" \in DOMAIN context[r].agents
       /\ context[r].agents["risk_scorer"].status \in {"failed", "timeout"}) =>
      /\ {"risk_score", "confidence"} \cap DOMAIN context[r].agents["risk_scorer"] = {}
      /\ final_saved[r] =>
           /\ sessions[sid[r]].final_result.risk_score = DefaultScore
           /\ sessions[sid[r]].final_result.confidence = DefaultScore
           /\ sessions[sid[r]].final_result.decision = "insufficient_evidence"

\* The risk scorer timed out, the run went on and stored its final result.
C39_Witness ==
  \E r \in Runs :
    /\ pc[r] = "done"
    /\ final_saved[r]
    /\ outcome[r]["risk_scorer"] = [kind |-> "exceed"]
    /\ context[r].agents["risk_scorer"].status = "timeout"
    /\ sessions[sid[r]].final_result.decision = "insufficient_evidence"
    /\ sessions[sid[r]].final_result.citations # <<>>

====
